---------------------------- MODULE Spec2Model ----------------------------
(* The outfit subsystem of src/src/outfit.c as a state machine: the outfit  *)
(* stack (outfit_stack / outfit_nstack), the operations outfit_load,        *)
(* outfit_get and outfit_getTech on it, the damage model outfit_calcDamage  *)
(* and the type registry (outfit_getType, outfit_getTypeBroad,              *)
(* outfit_strToOutfitType), the variant parsers that fill the union of an   *)
(* outfit, the accessors that read it, and outfit_free.                     *)
(*                                                                          *)
(* A C string pointer is the empty tuple (the null pointer) or a tuple of   *)
(* one TLA+ string; strcmp of two non-null pointers is string equality.     *)
(* Doubles of the damage model are counted in hundredths, doubles of the    *)
(* outfit records are fractions.                                            *)
EXTENDS Integers, Sequences, FiniteSets, TLC

VARIABLES
    outfit_stack,   \* the stack of loaded outfits; outfit_nstack is its length
    crashed,        \* the process was ended by a fault (null dereference, heap overrun)
    ret,            \* the last call on the stack: its arguments and what it gave back
    doc,            \* the data file dat/outfit.xml that outfit_load reads
    calc,           \* the last outfit_calcDamage call: arguments, the three outputs, WARN
    reg,            \* the last type-registry queries
    released        \* the pointers outfit_free handed to gl_freeTexture and free

vars == <<doc, outfit_stack, crashed, ret, calc, reg, released>>

-----------------------------------------------------------------------------
(* Bounds of the model.                                                     *)

MaxDoc == 2         \* children of the root element of the data file
MaxSortDoc == 3     \* the same, in the data files of the sorting specification
MaxStack == 3       \* outfit_load is taken while its outfits fit into this many entries
MaxTechLen == 2     \* techmax, the length of the tech list given to outfit_getTech
MaxDmg == 20        \* damage magnitudes 0..MaxDmg

-----------------------------------------------------------------------------
(* C strings.                                                               *)

NULL == <<>>

Str(s) == <<s>>

-----------------------------------------------------------------------------
(* OutfitType: the type codes, in the order outfit_getType's table indexes  *)
(* them; the loop of outfit_getTech runs from OUTFIT_TYPE_NULL+1 up to      *)
(* OUTFIT_TYPE_SENTINEL.                                                    *)

OUTFIT_TYPE_NULL == 0
OUTFIT_TYPE_BOLT == 1
OUTFIT_TYPE_BEAM == 2
OUTFIT_TYPE_TURRET_BOLT == 3
OUTFIT_TYPE_TURRET_BEAM == 4
OUTFIT_TYPE_MISSILE_DUMB == 5
OUTFIT_TYPE_MISSILE_DUMB_AMMO == 6
OUTFIT_TYPE_MISSILE_SEEK == 7
OUTFIT_TYPE_MISSILE_SEEK_AMMO == 8
OUTFIT_TYPE_MISSILE_SEEK_SMART == 9
OUTFIT_TYPE_MISSILE_SEEK_SMART_AMMO == 10
OUTFIT_TYPE_MISSILE_SWARM == 11
OUTFIT_TYPE_MISSILE_SWARM_AMMO == 12
OUTFIT_TYPE_MISSILE_SWARM_SMART == 13
OUTFIT_TYPE_MISSILE_SWARM_SMART_AMMO == 14
OUTFIT_TYPE_MODIFCATION == 15
OUTFIT_TYPE_AFTERBURNER == 16
OUTFIT_TYPE_JAMMER == 17
OUTFIT_TYPE_MAP == 18
OUTFIT_TYPE_SENTINEL == 19

OutfitTypes == OUTFIT_TYPE_NULL .. OUTFIT_TYPE_MAP

(* DamageType: the enumerators outfit_calcDamage switches on.               *)
DAMAGE_TYPE_NULL == 0
DAMAGE_TYPE_ENERGY == 1
DAMAGE_TYPE_KINETIC == 2
DAMAGE_TYPE_ION == 3
DAMAGE_TYPE_RADIATION == 4

-----------------------------------------------------------------------------
(* The type predicates (on a type code; the code passes the outfit and      *)
(* reads o->type).                                                          *)

outfit_isWeapon(t) == t = OUTFIT_TYPE_BOLT \/ t = OUTFIT_TYPE_BEAM

outfit_isBolt(t) == t = OUTFIT_TYPE_BOLT \/ t = OUTFIT_TYPE_TURRET_BOLT

outfit_isBeam(t) == t = OUTFIT_TYPE_BEAM \/ t = OUTFIT_TYPE_TURRET_BEAM

outfit_isLauncher(t) ==
    \/ t = OUTFIT_TYPE_MISSILE_DUMB
    \/ t = OUTFIT_TYPE_MISSILE_SEEK
    \/ t = OUTFIT_TYPE_MISSILE_SEEK_SMART
    \/ t = OUTFIT_TYPE_MISSILE_SWARM
    \/ t = OUTFIT_TYPE_MISSILE_SWARM_SMART

outfit_isAmmo(t) ==
    \/ t = OUTFIT_TYPE_MISSILE_DUMB_AMMO
    \/ t = OUTFIT_TYPE_MISSILE_SEEK_AMMO
    \/ t = OUTFIT_TYPE_MISSILE_SEEK_SMART_AMMO
    \/ t = OUTFIT_TYPE_MISSILE_SWARM_AMMO
    \/ t = OUTFIT_TYPE_MISSILE_SWARM_SMART_AMMO

outfit_isTurret(t) == t = OUTFIT_TYPE_TURRET_BOLT \/ t = OUTFIT_TYPE_TURRET_BEAM

outfit_isMod(t) == t = OUTFIT_TYPE_MODIFCATION

outfit_isAfterburner(t) == t = OUTFIT_TYPE_AFTERBURNER

outfit_isJammer(t) == t = OUTFIT_TYPE_JAMMER

outfit_isMap(t) == t = OUTFIT_TYPE_MAP

-----------------------------------------------------------------------------
(* The type registry.                                                       *)

outfit_typename ==
    <<"NULL",
      "Bolt Cannon",
      "Beam Cannon",
      "Bolt Turret",
      "Beam Turret",
      "Dumb Missile",
      "Dumb Missile Ammunition",
      "Seeker Missile",
      "Seeker Missile Ammunition",
      "Smart Seeker Missile",
      "Smart Seeker Missile Ammunition",
      "Swarm Missile",
      "Swarm Missile Ammunition Pack",
      "Smart Swarm Missile",
      "Smart Swarm Missile Ammunition Pack",
      "Ship Modification",
      "Afterburner",
      "Jammer",
      "Map">>

(* outfit_typename[o->type]; the table is indexed from 0 in the code.       *)
outfit_getType(t) == outfit_typename[t + 1]

outfit_typenamebroad ==
    <<"NULL",
      "Bolt Weapon",
      "Beam Weapon",
      "Launcher",
      "Ammo",
      "Turret",
      "Modification",
      "Afterburner",
      "Jammer",
      "Map">>

outfit_getTypeBroad(t) ==
    LET i == IF outfit_isBolt(t) THEN 1
             ELSE IF outfit_isBeam(t) THEN 2
             ELSE IF outfit_isLauncher(t) THEN 3
             ELSE IF outfit_isAmmo(t) THEN 4
             ELSE IF outfit_isTurret(t) THEN 5
             ELSE IF outfit_isMod(t) THEN 6
             ELSE IF outfit_isAfterburner(t) THEN 7
             ELSE IF outfit_isJammer(t) THEN 8
             ELSE IF outfit_isMap(t) THEN 9
             ELSE 0
    IN  outfit_typenamebroad[i + 1]

(* The chain with "turret bolt" and "turret beam" returning the codes of    *)
(* the fixed weapons.                                                       *)
O_CMP_turretsAsFixed ==
    << <<"bolt", OUTFIT_TYPE_BOLT>>,
       <<"beam", OUTFIT_TYPE_BEAM>>,
       <<"turret bolt", OUTFIT_TYPE_BOLT>>,
       <<"turret beam", OUTFIT_TYPE_BEAM>>,
       <<"missile dumb", OUTFIT_TYPE_MISSILE_DUMB>>,
       <<"missile dumb ammo", OUTFIT_TYPE_MISSILE_DUMB_AMMO>>,
       <<"missile seek", OUTFIT_TYPE_MISSILE_SEEK>>,
       <<"missile seek ammo", OUTFIT_TYPE_MISSILE_SEEK_AMMO>>,
       <<"missile smart", OUTFIT_TYPE_MISSILE_SEEK_SMART>>,
       <<"missile smart ammo", OUTFIT_TYPE_MISSILE_SEEK_SMART_AMMO>>,
       <<"missile swarm", OUTFIT_TYPE_MISSILE_SWARM>>,
       <<"missile swarm ammo", OUTFIT_TYPE_MISSILE_SWARM_AMMO>>,
       <<"missile swarm smart", OUTFIT_TYPE_MISSILE_SWARM_SMART>>,
       <<"missile swarm smart ammo", OUTFIT_TYPE_MISSILE_SWARM_SMART_AMMO>>,
       <<"modification", OUTFIT_TYPE_MODIFCATION>>,
       <<"afterburner", OUTFIT_TYPE_AFTERBURNER>>,
       <<"map", OUTFIT_TYPE_MAP>>,
       <<"jammer", OUTFIT_TYPE_JAMMER>> >>

(* The O_CMP chain of outfit_strToOutfitType: the strings it compares buf   *)
(* with, in its order, and the code each returns.                           *)
O_CMP ==
    << <<"bolt", OUTFIT_TYPE_BOLT>>,
       <<"beam", OUTFIT_TYPE_BEAM>>,
       <<"turret bolt", OUTFIT_TYPE_TURRET_BOLT>>,
       <<"turret beam", OUTFIT_TYPE_TURRET_BEAM>>,
       <<"missile dumb", OUTFIT_TYPE_MISSILE_DUMB>>,
       <<"missile dumb ammo", OUTFIT_TYPE_MISSILE_DUMB_AMMO>>,
       <<"missile seek", OUTFIT_TYPE_MISSILE_SEEK>>,
       <<"missile seek ammo", OUTFIT_TYPE_MISSILE_SEEK_AMMO>>,
       <<"missile smart", OUTFIT_TYPE_MISSILE_SEEK_SMART>>,
       <<"missile smart ammo", OUTFIT_TYPE_MISSILE_SEEK_SMART_AMMO>>,
       <<"missile swarm", OUTFIT_TYPE_MISSILE_SWARM>>,
       <<"missile swarm ammo", OUTFIT_TYPE_MISSILE_SWARM_AMMO>>,
       <<"missile swarm smart", OUTFIT_TYPE_MISSILE_SWARM_SMART>>,
       <<"missile swarm smart ammo", OUTFIT_TYPE_MISSILE_SWARM_SMART_AMMO>>,
       <<"modification", OUTFIT_TYPE_MODIFCATION>>,
       <<"afterburner", OUTFIT_TYPE_AFTERBURNER>>,
       <<"map", OUTFIT_TYPE_MAP>>,
       <<"jammer", OUTFIT_TYPE_JAMMER>> >>

RECURSIVE O_CMP_from(_, _)
O_CMP_from(buf, k) ==
    IF k > Len(O_CMP)
    THEN [type |-> OUTFIT_TYPE_NULL, warn |-> TRUE]
    ELSE IF buf = Str(O_CMP[k][1])
         THEN [type |-> O_CMP[k][2], warn |-> FALSE]
         ELSE O_CMP_from(buf, k + 1)

(* A variant of the parser that accepts the display names as well.          *)
outfit_strToOutfitTypeDisplay(buf) ==
    IF \E t \in OUTFIT_TYPE_BOLT .. OUTFIT_TYPE_MAP : buf = Str(outfit_typename[t + 1])
    THEN [type |-> CHOOSE t \in OUTFIT_TYPE_BOLT .. OUTFIT_TYPE_MAP :
                       buf = Str(outfit_typename[t + 1]),
          warn |-> FALSE]
    ELSE O_CMP_from(buf, 1)

(* outfit_strToOutfitType on a non-null buf: the first matching string's    *)
(* code, or WARN and OUTFIT_TYPE_NULL.  (A null buf is a fault in strcmp;   *)
(* outfit_parse below models that call.)                                    *)
outfit_strToOutfitType(buf) == O_CMP_from(buf, 1)

-----------------------------------------------------------------------------
(* The damage model.  Outputs in hundredths: dmg*1.1 is dmg*110.            *)

(* Variant: radiation's shield damage scaled by dmg like the others'.       *)
outfit_calcDamageScaled(dtype, dmg) ==
    CASE dtype = DAMAGE_TYPE_ENERGY ->
            [dshield |-> dmg * 110, darmour |-> dmg * 70, knockback |-> 10, warn |-> FALSE]
      [] dtype = DAMAGE_TYPE_KINETIC ->
            [dshield |-> dmg * 80, darmour |-> dmg * 120, knockback |-> 100, warn |-> FALSE]
      [] dtype = DAMAGE_TYPE_ION ->
            [dshield |-> dmg * 100, darmour |-> dmg * 100, knockback |-> 40, warn |-> FALSE]
      [] dtype = DAMAGE_TYPE_RADIATION ->
            [dshield |-> dmg * 15, darmour |-> dmg * 100, knockback |-> 80, warn |-> FALSE]
      [] OTHER ->
            [dshield |-> 0, darmour |-> 0, knockback |-> 0, warn |-> TRUE]

(* Variant: an unknown type passes the damage through unchanged.            *)
outfit_calcDamagePassing(dtype, dmg) ==
    CASE dtype = DAMAGE_TYPE_ENERGY ->
            [dshield |-> dmg * 110, darmour |-> dmg * 70, knockback |-> 10, warn |-> FALSE]
      [] dtype = DAMAGE_TYPE_KINETIC ->
            [dshield |-> dmg * 80, darmour |-> dmg * 120, knockback |-> 100, warn |-> FALSE]
      [] dtype = DAMAGE_TYPE_ION ->
            [dshield |-> dmg * 100, darmour |-> dmg * 100, knockback |-> 40, warn |-> FALSE]
      [] dtype = DAMAGE_TYPE_RADIATION ->
            [dshield |-> 15, darmour |-> dmg * 100, knockback |-> 80, warn |-> FALSE]
      [] OTHER ->
            [dshield |-> dmg * 100, darmour |-> dmg * 100, knockback |-> 0, warn |-> TRUE]

outfit_calcDamage(dtype, dmg) ==
    CASE dtype = DAMAGE_TYPE_ENERGY ->
            [dshield |-> dmg * 110, darmour |-> dmg * 70, knockback |-> 10, warn |-> FALSE]
      [] dtype = DAMAGE_TYPE_KINETIC ->
            [dshield |-> dmg * 80, darmour |-> dmg * 120, knockback |-> 100, warn |-> FALSE]
      [] dtype = DAMAGE_TYPE_ION ->
            [dshield |-> dmg * 100, darmour |-> dmg * 100, knockback |-> 40, warn |-> FALSE]
      [] dtype = DAMAGE_TYPE_RADIATION ->
            [dshield |-> 15, darmour |-> dmg * 100, knockback |-> 80, warn |-> FALSE]
      [] OTHER ->
            [dshield |-> 0, darmour |-> 0, knockback |-> 0, warn |-> TRUE]

-----------------------------------------------------------------------------
(* Doubles of the outfit records.  A value read from the data file and what *)
(* the parsers compute from it (x / 100., x / 60., 1. + x / 100.,           *)
(* 0.8 * x * y) is kept as a fraction n / d with d > 0; two fractions are   *)
(* the same number when they cross-multiply to the same product.            *)

Q(n, d) == [n |-> n, d |-> d]

QEq(a, b) == a.n * b.d = b.n * a.d

(* a / k for a positive constant k: "/= 100.", "/ 60.0".                    *)
QDivBy(a, k) == Q(a.n, a.d * k)

(* 1. + a / 100.                                                            *)
QOnePlusPerc(a) == Q(100 * a.d + a.n, 100 * a.d)

(* 0.8 * a * b                                                              *)
QRange(a, b) == Q(8 * a.n * b.n, 10 * a.d * b.d)

(* The conversion of a double to int: toward zero.                          *)
QTrunc(a) == IF a.n >= 0 THEN a.n \div a.d ELSE 0 - ((0 - a.n) \div a.d)

(* xml_getInt of a node's text (atoi): the integer part.                    *)
xml_getInt(a) == Q(QTrunc(a), 1)

-----------------------------------------------------------------------------
(* The graphics, effect and sound registries outfit.c calls.  A texture is  *)
(* the null pointer or a tuple naming what was loaded; an effect or sound   *)
(* id is the 0-based position of the name in the registry, -1 when the      *)
(* name is not registered.                                                  *)

GfxFiles == {"laser", "missile"}

SpfxStack == <<"ExpS", "ExpM">>

SoundStack == <<"laser", "missile">>

gl_newSprite(text) == IF text[1] \in GfxFiles THEN <<"space", text[1]>> ELSE NULL

gl_newImage(text) == IF text[1] \in GfxFiles THEN <<"store", text[1]>> ELSE NULL

spfx_get(text) ==
    IF \E k \in 1 .. Len(SpfxStack) : SpfxStack[k] = text[1]
    THEN (CHOOSE k \in 1 .. Len(SpfxStack) : SpfxStack[k] = text[1]) - 1
    ELSE -1

sound_get(text) ==
    IF \E k \in 1 .. Len(SoundStack) : SoundStack[k] = text[1]
    THEN (CHOOSE k \in 1 .. Len(SoundStack) : SoundStack[k] = text[1]) - 1
    ELSE -1

-----------------------------------------------------------------------------
(* The variant payload, the union u of an Outfit.  It is a record whose     *)
(* field "member" names the union member the variant parser wrote (blt,     *)
(* bem, lau, amm, mod, afb, map, jam; "none" when no parser ran and the     *)
(* union is the zero bytes of CALLOC_ONE), with that member's fields.  A    *)
(* child of the "specific" section is a record [tag, num, text, attr]: the  *)
(* tag, the number and the text of its content, its "type" attribute.       *)

u_none == [member |-> "none"]

outfit_strToDamageType(buf) ==
    CASE buf = Str("energy") -> DAMAGE_TYPE_ENERGY
      [] buf = Str("kinetic") -> DAMAGE_TYPE_KINETIC
      [] buf = Str("ion") -> DAMAGE_TYPE_ION
      [] buf = Str("radiation") -> DAMAGE_TYPE_RADIATION
      [] OTHER -> DAMAGE_TYPE_NULL

(* The member as outfit_parseSBolt starts on it: zero, and sound -1.        *)
blt_defaults ==
    [member |-> "blt", speed |-> Q(0, 1), delay |-> Q(0, 1), range |-> Q(0, 1),
     accuracy |-> Q(0, 1), energy |-> Q(0, 1), dtype |-> DAMAGE_TYPE_NULL,
     damage |-> Q(0, 1), gfx_space |-> NULL, spfx |-> 0, sound |-> -1]

(* The loop body of outfit_parseSBolt that stores the speed as the range.   *)
outfit_parseSBolt_nodeSpeedAsRange(u, node) ==
    CASE node.tag = "speed" -> [u EXCEPT !.range = node.num]
      [] node.tag = "delay" -> [u EXCEPT !.delay = node.num]
      [] node.tag = "range" -> [u EXCEPT !.range = node.num]
      [] node.tag = "accuracy" -> [u EXCEPT !.accuracy = node.num]
      [] node.tag = "energy" -> [u EXCEPT !.energy = node.num]
      [] node.tag = "gfx" -> [u EXCEPT !.gfx_space = gl_newSprite(node.text)]
      [] node.tag = "spfx" -> [u EXCEPT !.spfx = spfx_get(node.text)]
      [] node.tag = "sound" -> [u EXCEPT !.sound = sound_get(node.text)]
      [] node.tag = "damage" ->
            [u EXCEPT !.dtype = outfit_strToDamageType(node.attr),
                      !.damage = node.num]
      [] OTHER -> u

outfit_parseSBolt_node(u, node) ==
    CASE node.tag = "speed" -> [u EXCEPT !.speed = node.num]
      [] node.tag = "delay" -> [u EXCEPT !.delay = node.num]
      [] node.tag = "range" -> [u EXCEPT !.range = node.num]
      [] node.tag = "accuracy" -> [u EXCEPT !.accuracy = node.num]
      [] node.tag = "energy" -> [u EXCEPT !.energy = node.num]
      [] node.tag = "gfx" -> [u EXCEPT !.gfx_space = gl_newSprite(node.text)]
      [] node.tag = "spfx" -> [u EXCEPT !.spfx = spfx_get(node.text)]
      [] node.tag = "sound" -> [u EXCEPT !.sound = sound_get(node.text)]
      [] node.tag = "damage" ->
            [u EXCEPT !.dtype = outfit_strToDamageType(node.attr),
                      !.damage = node.num]
      [] OTHER -> u

bem_defaults ==
    [member |-> "bem", range |-> Q(0, 1), turn |-> Q(0, 1), energy |-> Q(0, 1),
     dtype |-> DAMAGE_TYPE_NULL, damage |-> Q(0, 1), delay |-> Q(0, 1),
     colour |-> "NULL"]

outfit_parseSBeam_node(u, node) ==
    CASE node.tag = "range" -> [u EXCEPT !.range = node.num]
      [] node.tag = "turn" -> [u EXCEPT !.turn = node.num]
      [] node.tag = "energy" -> [u EXCEPT !.energy = node.num]
      [] node.tag = "damage" ->
            [u EXCEPT !.dtype = outfit_strToDamageType(node.attr),
                      !.damage = node.num]
      [] OTHER -> u

lau_defaults == [member |-> "lau", delay |-> Q(0, 1), ammo |-> NULL]

outfit_parseSLauncher_node(u, node) ==
    CASE node.tag = "delay" -> [u EXCEPT !.delay = xml_getInt(node.num)]
      [] node.tag = "ammo" -> [u EXCEPT !.ammo = node.text]
      [] OTHER -> u

amm_defaults ==
    [member |-> "amm", duration |-> Q(0, 1), lockon |-> Q(0, 1),
     resist |-> Q(0, 1), thrust |-> Q(0, 1), turn |-> Q(0, 1),
     speed |-> Q(0, 1), energy |-> Q(0, 1), dtype |-> DAMAGE_TYPE_NULL,
     damage |-> Q(0, 1), gfx_space |-> NULL, spfx |-> 0, sound |-> 0]

outfit_parseSAmmo_node(u, node) ==
    CASE node.tag = "duration" -> [u EXCEPT !.duration = node.num]
      [] node.tag = "lockon" -> [u EXCEPT !.lockon = node.num]
      [] node.tag = "resist" -> [u EXCEPT !.resist = node.num]
      [] node.tag = "thrust" -> [u EXCEPT !.thrust = node.num]
      [] node.tag = "turn" -> [u EXCEPT !.turn = node.num]
      [] node.tag = "speed" -> [u EXCEPT !.speed = node.num]
      [] node.tag = "energy" -> [u EXCEPT !.energy = node.num]
      [] node.tag = "gfx" -> [u EXCEPT !.gfx_space = gl_newSprite(node.text)]
      [] node.tag = "spfx" -> [u EXCEPT !.spfx = spfx_get(node.text)]
      [] node.tag = "sound" -> [u EXCEPT !.sound = sound_get(node.text)]
      [] node.tag = "damage" ->
            [u EXCEPT !.dtype = outfit_strToDamageType(node.attr),
                      !.damage = node.num]
      [] OTHER -> u

mod_defaults ==
    [member |-> "mod", thrust |-> Q(0, 1), turn |-> Q(0, 1), speed |-> Q(0, 1),
     armour |-> Q(0, 1), shield |-> Q(0, 1), energy |-> Q(0, 1),
     fuel |-> Q(0, 1), armour_regen |-> Q(0, 1), shield_regen |-> Q(0, 1),
     energy_regen |-> Q(0, 1), cargo |-> Q(0, 1)]

outfit_parseSMod_node(u, node) ==
    CASE node.tag = "thrust" -> [u EXCEPT !.thrust = node.num]
      [] node.tag = "turn" -> [u EXCEPT !.turn = node.num]
      [] node.tag = "speed" -> [u EXCEPT !.speed = node.num]
      [] node.tag = "armour" -> [u EXCEPT !.armour = node.num]
      [] node.tag = "shield" -> [u EXCEPT !.shield = node.num]
      [] node.tag = "energy" -> [u EXCEPT !.energy = node.num]
      [] node.tag = "fuel" -> [u EXCEPT !.fuel = node.num]
      [] node.tag = "armour_regen" -> [u EXCEPT !.armour_regen = QDivBy(node.num, 60)]
      [] node.tag = "shield_regen" -> [u EXCEPT !.shield_regen = QDivBy(node.num, 60)]
      [] node.tag = "energy_regen" -> [u EXCEPT !.energy_regen = QDivBy(node.num, 60)]
      [] node.tag = "cargo" -> [u EXCEPT !.cargo = xml_getInt(node.num)]
      [] OTHER -> u

(* The member all zero, the multipliers included.                           *)
afb_defaultsZeroed ==
    [member |-> "afb", rumble |-> Q(0, 1), sound |-> 0,
     thrust_perc |-> Q(0, 1), thrust_abs |-> Q(0, 1),
     speed_perc |-> Q(0, 1), speed_abs |-> Q(0, 1), energy |-> Q(0, 1)]

(* The member as outfit_parseSAfterburner starts on it: zero, and both      *)
(* multipliers 1.                                                           *)
afb_defaults ==
    [member |-> "afb", rumble |-> Q(0, 1), sound |-> 0,
     thrust_perc |-> Q(1, 1), thrust_abs |-> Q(0, 1),
     speed_perc |-> Q(1, 1), speed_abs |-> Q(0, 1), energy |-> Q(0, 1)]

outfit_parseSAfterburner_node(u, node) ==
    CASE node.tag = "rumble" -> [u EXCEPT !.rumble = node.num]
      [] node.tag = "sound" -> [u EXCEPT !.sound = sound_get(node.text)]
      [] node.tag = "thrust_perc" -> [u EXCEPT !.thrust_perc = QOnePlusPerc(node.num)]
      [] node.tag = "thrust_abs" -> [u EXCEPT !.thrust_abs = node.num]
      [] node.tag = "speed_perc" -> [u EXCEPT !.speed_perc = QOnePlusPerc(node.num)]
      [] node.tag = "speed_abs" -> [u EXCEPT !.speed_abs = node.num]
      [] node.tag = "energy" -> [u EXCEPT !.energy = node.num]
      [] OTHER -> u

map_defaults == [member |-> "map", radius |-> Q(0, 1)]

outfit_parseSMap_node(u, node) ==
    CASE node.tag = "radius" -> [u EXCEPT !.radius = xml_getInt(node.num)]
      [] OTHER -> u

jam_defaults ==
    [member |-> "jam", range |-> Q(0, 1), chance |-> Q(0, 1), energy |-> Q(0, 1)]

outfit_parseSJammer_node(u, node) ==
    CASE node.tag = "range" -> [u EXCEPT !.range = node.num]
      [] node.tag = "chance" -> [u EXCEPT !.chance = node.num]
      [] node.tag = "energy" -> [u EXCEPT !.energy = node.num]
      [] OTHER -> u

-----------------------------------------------------------------------------
(* Parsing one <outfit> element.  An element is a record                    *)
(*   [tag, name, tech, price, description, gfx_store, type, nodes]          *)
(* tag the element's tag, name its name attribute (NULL when absent), tech, *)
(* price, description and gfx_store the values of its "general" section     *)
(* (NULL for an absent text), type the type attribute of its "specific"     *)
(* section (NULL when absent), nodes that section's children.               *)

(* The variant parser outfit_parse dispatches to for a resolved type.       *)
outfit_parseS(t) ==
    IF t = OUTFIT_TYPE_NULL THEN "none"
    ELSE IF outfit_isBolt(t) THEN "outfit_parseSBolt"
    ELSE IF outfit_isBeam(t) THEN "outfit_parseSBeam"
    ELSE IF outfit_isLauncher(t) THEN "outfit_parseSLauncher"
    ELSE IF outfit_isAmmo(t) THEN "outfit_parseSAmmo"
    ELSE IF outfit_isMod(t) THEN "outfit_parseSMod"
    ELSE IF outfit_isAfterburner(t) THEN "outfit_parseSAfterburner"
    ELSE IF outfit_isMap(t) THEN "outfit_parseSMap"
    ELSE IF outfit_isJammer(t) THEN "outfit_parseSJammer"
    ELSE "none"

(* One child of the "specific" section, as the loop body of the variant     *)
(* parser named by parser takes it.                                         *)
outfit_parseS_node(parser, u, node) ==
    CASE parser = "outfit_parseSBolt" -> outfit_parseSBolt_node(u, node)
      [] parser = "outfit_parseSBeam" -> outfit_parseSBeam_node(u, node)
      [] parser = "outfit_parseSLauncher" -> outfit_parseSLauncher_node(u, node)
      [] parser = "outfit_parseSAmmo" -> outfit_parseSAmmo_node(u, node)
      [] parser = "outfit_parseSMod" -> outfit_parseSMod_node(u, node)
      [] parser = "outfit_parseSAfterburner" -> outfit_parseSAfterburner_node(u, node)
      [] parser = "outfit_parseSMap" -> outfit_parseSMap_node(u, node)
      [] parser = "outfit_parseSJammer" -> outfit_parseSJammer_node(u, node)
      [] OTHER -> u

(* outfit_parseDamage hands the "type" attribute to outfit_strToDamageType, *)
(* whose strcmp faults on the null pointer of an absent attribute.          *)
outfit_parseDamage_faults(parser, node) ==
    /\ parser \in {"outfit_parseSBolt", "outfit_parseSBeam", "outfit_parseSAmmo"}
    /\ node.tag = "damage"
    /\ node.attr = NULL

(* The do-while of a variant parser over the children from the k-th on.     *)
RECURSIVE outfit_parseS_loop(_, _, _, _)
outfit_parseS_loop(parser, u, nodes, k) ==
    IF k > Len(nodes)
    THEN [fault |-> FALSE, u |-> u]
    ELSE IF outfit_parseDamage_faults(parser, nodes[k])
         THEN [fault |-> TRUE, u |-> u]
         ELSE outfit_parseS_loop(parser, outfit_parseS_node(parser, u, nodes[k]),
                                 nodes, k + 1)

outfit_parseSBolt(nodes) ==
    outfit_parseS_loop("outfit_parseSBolt", blt_defaults, nodes, 1)

outfit_parseSBeam(nodes) ==
    LET r == outfit_parseS_loop("outfit_parseSBeam", bem_defaults, nodes, 1)
    IN  [r EXCEPT !.u.colour = "cWhite"]

outfit_parseSLauncher(nodes) ==
    outfit_parseS_loop("outfit_parseSLauncher", lau_defaults, nodes, 1)

outfit_parseSAmmo(nodes) ==
    LET r == outfit_parseS_loop("outfit_parseSAmmo", amm_defaults, nodes, 1)
    IN  [r EXCEPT !.u.resist = QDivBy(r.u.resist, 100)]

outfit_parseSMod(nodes) ==
    outfit_parseS_loop("outfit_parseSMod", mod_defaults, nodes, 1)

outfit_parseSAfterburner(nodes) ==
    outfit_parseS_loop("outfit_parseSAfterburner", afb_defaults, nodes, 1)

outfit_parseSMap(nodes) ==
    outfit_parseS_loop("outfit_parseSMap", map_defaults, nodes, 1)

(* outfit_parseSJammer that divides the energy but leaves the chance in     *)
(* percent.                                                                 *)
outfit_parseSJammerPercent(nodes) ==
    LET r == outfit_parseS_loop("outfit_parseSJammer", jam_defaults, nodes, 1)
    IN  [r EXCEPT !.u.energy = QDivBy(r.u.energy, 60)]

outfit_parseSJammer(nodes) ==
    LET r == outfit_parseS_loop("outfit_parseSJammer", jam_defaults, nodes, 1)
    IN  [r EXCEPT !.u.chance = QDivBy(r.u.chance, 100),
                  !.u.energy = QDivBy(r.u.energy, 60)]

(* The dispatch of outfit_parse on the "specific" section.                  *)
outfit_parseSpecific(parser, nodes) ==
    CASE parser = "outfit_parseSBolt" -> outfit_parseSBolt(nodes)
      [] parser = "outfit_parseSBeam" -> outfit_parseSBeam(nodes)
      [] parser = "outfit_parseSLauncher" -> outfit_parseSLauncher(nodes)
      [] parser = "outfit_parseSAmmo" -> outfit_parseSAmmo(nodes)
      [] parser = "outfit_parseSMod" -> outfit_parseSMod(nodes)
      [] parser = "outfit_parseSAfterburner" -> outfit_parseSAfterburner(nodes)
      [] parser = "outfit_parseSMap" -> outfit_parseSMap(nodes)
      [] parser = "outfit_parseSJammer" -> outfit_parseSJammer(nodes)
      [] OTHER -> [fault |-> FALSE, u |-> u_none]

(* sound.h's flag, 0 while the sound is on.                                 *)
sound_disabled == 0

(* The elements the MELEMENT lines at the end of a variant parser report    *)
(* as missing or invalid.                                                   *)
MELEMENT(o, s) == IF o THEN {s} ELSE {}

outfit_parseSBolt_missing(u) ==
    MELEMENT(u.gfx_space = NULL, "gfx")
    \cup MELEMENT(sound_disabled # 0 /\ u.sound < 0, "sound")
    \cup MELEMENT(u.delay.n = 0, "delay")
    \cup MELEMENT(u.speed.n = 0, "speed")
    \cup MELEMENT(u.range.n = 0, "range")
    \cup MELEMENT(u.accuracy.n = 0, "accuracy")
    \cup MELEMENT(u.damage.n = 0, "damage")

outfit_parseSBeam_missing(u) ==
    MELEMENT(u.range.n = 0, "range")
    \cup MELEMENT(u.turn.n = 0, "turn")
    \cup MELEMENT(u.energy.n = 0, "energy")
    \cup MELEMENT(u.damage.n = 0, "damage")

outfit_parseSLauncher_missing(u) ==
    MELEMENT(u.ammo = NULL, "ammo") \cup MELEMENT(u.delay.n = 0, "delay")

(* The reports of outfit_parseSAmmo with those of turn and lockon made for  *)
(* the dumb missile's ammunition too.                                       *)
outfit_parseSAmmo_missingAnyType(type, u) ==
    MELEMENT(u.gfx_space = NULL, "gfx")
    \cup MELEMENT(sound_disabled # 0 /\ u.sound < 0, "sound")
    \cup MELEMENT(u.thrust.n = 0, "thrust")
    \cup MELEMENT(u.turn.n = 0, "turn")
    \cup MELEMENT(u.lockon.n = 0, "lockon")
    \cup MELEMENT(u.speed.n = 0, "speed")
    \cup MELEMENT(u.duration.n = 0, "duration")
    \cup MELEMENT(u.damage.n = 0, "damage")

outfit_parseSAmmo_missing(type, u) ==
    MELEMENT(u.gfx_space = NULL, "gfx")
    \cup MELEMENT(sound_disabled # 0 /\ u.sound < 0, "sound")
    \cup MELEMENT(u.thrust.n = 0, "thrust")
    \cup (IF type # OUTFIT_TYPE_MISSILE_DUMB_AMMO
          THEN MELEMENT(u.turn.n = 0, "turn") \cup MELEMENT(u.lockon.n = 0, "lockon")
          ELSE {})
    \cup MELEMENT(u.speed.n = 0, "speed")
    \cup MELEMENT(u.duration.n = 0, "duration")
    \cup MELEMENT(u.damage.n = 0, "damage")

outfit_parseSJammer_missing(u) ==
    MELEMENT(u.range.n = 0, "range") \cup MELEMENT(u.chance.n = 0, "chance")

(* The reports of the variant parser that ran on the section.               *)
outfit_parseS_missing(parser, type, u) ==
    CASE parser = "outfit_parseSBolt" -> outfit_parseSBolt_missing(u)
      [] parser = "outfit_parseSBeam" -> outfit_parseSBeam_missing(u)
      [] parser = "outfit_parseSLauncher" -> outfit_parseSLauncher_missing(u)
      [] parser = "outfit_parseSAmmo" -> outfit_parseSAmmo_missing(type, u)
      [] parser = "outfit_parseSJammer" -> outfit_parseSJammer_missing(u)
      [] OTHER -> {}

(* outfit_parse: the record, or a fault when the type attribute is absent   *)
(* (ERR reports it and outfit_strToOutfitType then hands the null pointer   *)
(* to strcmp) or when the variant parser faults.                            *)
outfit_parse(e) ==
    IF e.type = NULL
    THEN [fault |-> TRUE]
    ELSE LET t == outfit_strToOutfitType(e.type).type
             s == outfit_parseSpecific(outfit_parseS(t), e.nodes)
         IN  IF s.fault
             THEN [fault |-> TRUE]
             ELSE [fault |-> FALSE,
                   missing |-> outfit_parseS_missing(outfit_parseS(t), t, s.u),
                   o |-> [name |-> e.name, type |-> t, tech |-> e.tech,
                          price |-> e.price, parser |-> outfit_parseS(t),
                          description |-> e.description,
                          gfx_store |-> IF e.gfx_store = NULL THEN NULL
                                        ELSE gl_newImage(e.gfx_store),
                          u |-> s.u]]

XML_OUTFIT_ID == "Outfits"

XML_OUTFIT_TAG == "outfit"

(* outfit_load_children with each new entry put ahead of the entries the    *)
(* stack already has.                                                       *)
RECURSIVE outfit_load_childrenPrepend(_, _, _)
outfit_load_childrenPrepend(stack, children, k) ==
    IF k > Len(children)
    THEN [fault |-> FALSE, stack |-> stack, log |-> <<>>]
    ELSE IF children[k].tag = XML_OUTFIT_TAG
         THEN LET p == outfit_parse(children[k])
              IN  IF p.fault
                  THEN [fault |-> TRUE, stack |-> stack, log |-> <<>>]
                  ELSE LET r == outfit_load_childrenPrepend(<<p.o>> \o stack,
                                                            children, k + 1)
                       IN  [r EXCEPT !.log = <<p.missing>> \o @]
         ELSE outfit_load_childrenPrepend(stack, children, k + 1)

(* The do-while of outfit_load over the root's children from the k-th on:   *)
(* every "outfit" child is parsed and appended; a fault ends the process    *)
(* with the entries appended so far.                                        *)
RECURSIVE outfit_load_children(_, _, _)
outfit_load_children(stack, children, k) ==
    IF k > Len(children)
    THEN [fault |-> FALSE, stack |-> stack, log |-> <<>>]
    ELSE IF children[k].tag = XML_OUTFIT_TAG
         THEN LET p == outfit_parse(children[k])
              IN  IF p.fault
                  THEN [fault |-> TRUE, stack |-> stack, log |-> <<>>]
                  ELSE LET r == outfit_load_children(Append(stack, p.o),
                                                     children, k + 1)
                       IN  [r EXCEPT !.log = <<p.missing>> \o @]
         ELSE outfit_load_children(stack, children, k + 1)

NOutfits(children) ==
    Cardinality({k \in 1 .. Len(children) : children[k].tag = XML_OUTFIT_TAG})

(* outfit_load without the test of the root's tag.                          *)
outfit_loadAnyRoot ==
    /\ ~crashed
    /\ Len(outfit_stack) + NOutfits(doc.children) <= MaxStack
    /\ IF doc.children = <<>>
       THEN /\ ret' = [op |-> "load", status |-> "returned", res |-> -1,
                       before |-> outfit_stack, log |-> <<>>]
            /\ UNCHANGED <<outfit_stack, crashed>>
       ELSE LET r == outfit_load_children(outfit_stack, doc.children, 1)
            IN  /\ outfit_stack' = r.stack
                /\ crashed' = r.fault
                /\ ret' = [op |-> "load",
                           status |-> IF r.fault THEN "fault" ELSE "returned",
                           res |-> 0, before |-> outfit_stack, log |-> r.log]
    /\ UNCHANGED <<doc, calc, reg, released>>

outfit_load ==
    /\ ~crashed
    /\ Len(outfit_stack) + NOutfits(doc.children) <= MaxStack
    /\ IF doc.root # XML_OUTFIT_ID \/ doc.children = <<>>
       THEN /\ ret' = [op |-> "load", status |-> "returned", res |-> -1,
                       before |-> outfit_stack, log |-> <<>>]
            /\ UNCHANGED <<outfit_stack, crashed>>
       ELSE LET r == outfit_load_children(outfit_stack, doc.children, 1)
            IN  /\ outfit_stack' = r.stack
                /\ crashed' = r.fault
                /\ ret' = [op |-> "load",
                           status |-> IF r.fault THEN "fault" ELSE "returned",
                           res |-> 0, before |-> outfit_stack, log |-> r.log]
    /\ UNCHANGED <<doc, calc, reg, released>>

-----------------------------------------------------------------------------
(* outfit_get: the scan from index i (1-based here).  strcmp with the null  *)
(* name of an entry is a fault.                                             *)

RECURSIVE outfit_get_from(_, _, _)
outfit_get_from(stack, name, i) ==
    IF i > Len(stack)
    THEN [status |-> "returned", idx |-> 0, warn |-> TRUE]
    ELSE IF stack[i].name = NULL
         THEN [status |-> "fault", idx |-> 0, warn |-> FALSE]
         ELSE IF name = stack[i].name
              THEN [status |-> "returned", idx |-> i, warn |-> FALSE]
              ELSE outfit_get_from(stack, name, i + 1)

(* After outfit_free the stack's pointer and outfit_nstack are what they    *)
(* were, and the array and the strings of its entries are released: a call  *)
(* that reads them then finds the bytes still as they were ("stale") or     *)
(* ends the process.  Before outfit_free the records are "live".            *)
Dangling == released # <<>> /\ outfit_stack # <<>>

Memory == IF Dangling THEN {"stale", "fault"} ELSE {"live"}

(* idx 0 is the NULL return, idx i the pointer &outfit_stack[i-1].          *)
outfit_get(name) ==
    /\ ~crashed
    /\ \E mem \in Memory :
          LET r == IF mem = "fault"
                   THEN [status |-> "fault", idx |-> 0, warn |-> FALSE]
                   ELSE outfit_get_from(outfit_stack, name, 1)
          IN  /\ ret' = [op |-> "get", name |-> name, status |-> r.status,
                         idx |-> r.idx, warn |-> r.warn, mem |-> mem]
              /\ crashed' = (r.status = "fault")
    /\ UNCHANGED <<doc, outfit_stack, calc, reg, released>>

-----------------------------------------------------------------------------
(* outfit_getTech.  tech is the tech list (tech[1] the base technology),    *)
(* outfits the temporary array as a sequence of stack indices, names the    *)
(* result outfitnames; picked records, per name, the position in outfits    *)
(* of the entry it was copied from (the variable price at the strdup).      *)

(* The inner loop over the special techs: one write of &outfit_stack[i] per *)
(* j with tech[j] == outfit_stack[i].tech.                                  *)
RECURSIVE getTech_special(_, _, _, _, _)
getTech_special(stack, tech, i, j, outfits) ==
    IF j > Len(tech)
    THEN outfits
    ELSE getTech_special(stack, tech, i, j + 1,
             IF tech[j] = stack[i].tech THEN Append(outfits, i) ELSE outfits)

(* Variant: the base tech is compared with == instead of <=.                *)
RECURSIVE getTech_availableExact(_, _, _, _)
getTech_availableExact(stack, tech, i, outfits) ==
    IF i > Len(stack)
    THEN outfits
    ELSE IF stack[i].tech = tech[1]
         THEN getTech_availableExact(stack, tech, i + 1, Append(outfits, i))
         ELSE getTech_availableExact(stack, tech, i + 1,
                  getTech_special(stack, tech, i, 2, outfits))

(* "get the available techs": the first loop of outfit_getTech.             *)
RECURSIVE getTech_available(_, _, _, _)
getTech_available(stack, tech, i, outfits) ==
    IF i > Len(stack)
    THEN outfits
    ELSE IF stack[i].tech <= tech[1]
         THEN getTech_available(stack, tech, i + 1, Append(outfits, i))
         ELSE getTech_available(stack, tech, i + 1,
                  getTech_special(stack, tech, i, 1, outfits))

(* Variant: the pass takes the dearest entry (< instead of >).              *)
RECURSIVE getTech_dearest(_, _, _, _, _, _)
getTech_dearest(stack, outfits, names, type, j, price) ==
    IF j > Len(outfits)
    THEN [fault |-> FALSE, price |-> price]
    ELSE LET o == stack[outfits[j]]
         IN  IF o.type # type
             THEN getTech_dearest(stack, outfits, names, type, j + 1, price)
             ELSE IF price = -1 \/ stack[outfits[price]].price < o.price
                  THEN IF names # <<>> /\ o.name = NULL
                       THEN [fault |-> TRUE, price |-> price]
                       ELSE IF \E k \in 1 .. Len(names) : names[k] = o.name
                            THEN getTech_dearest(stack, outfits, names, type, j + 1, price)
                            ELSE getTech_dearest(stack, outfits, names, type, j + 1, j)
                  ELSE getTech_dearest(stack, outfits, names, type, j + 1, price)

(* Variant: the pass does not skip the entries of other types.              *)
RECURSIVE getTech_cheapestAnyType(_, _, _, _, _, _)
getTech_cheapestAnyType(stack, outfits, names, type, j, price) ==
    IF j > Len(outfits)
    THEN [fault |-> FALSE, price |-> price]
    ELSE LET o == stack[outfits[j]]
         IN  IF price = -1 \/ stack[outfits[price]].price > o.price
             THEN IF names # <<>> /\ o.name = NULL
                  THEN [fault |-> TRUE, price |-> price]
                  ELSE IF \E k \in 1 .. Len(names) : names[k] = o.name
                       THEN getTech_cheapestAnyType(stack, outfits, names, type, j + 1, price)
                       ELSE getTech_cheapestAnyType(stack, outfits, names, type, j + 1, j)
             ELSE getTech_cheapestAnyType(stack, outfits, names, type, j + 1, price)

(* Variant: the "already in stack" loop starts at k = 1 and so never looks  *)
(* at the first name of the result.                                         *)
RECURSIVE getTech_cheapestFromSecond(_, _, _, _, _, _)
getTech_cheapestFromSecond(stack, outfits, names, type, j, price) ==
    IF j > Len(outfits)
    THEN [fault |-> FALSE, price |-> price]
    ELSE LET o == stack[outfits[j]]
         IN  IF o.type # type
             THEN getTech_cheapestFromSecond(stack, outfits, names, type, j + 1, price)
             ELSE IF price = -1 \/ stack[outfits[price]].price > o.price
                  THEN IF Len(names) > 1 /\ o.name = NULL
                       THEN [fault |-> TRUE, price |-> price]
                       ELSE IF \E k \in 2 .. Len(names) : names[k] = o.name
                            THEN getTech_cheapestFromSecond(stack, outfits, names, type,
                                                            j + 1, price)
                            ELSE getTech_cheapestFromSecond(stack, outfits, names, type,
                                                            j + 1, j)
                  ELSE getTech_cheapestFromSecond(stack, outfits, names, type, j + 1, price)

(* "check for cheapest": the for loop over j of one pass of the while loop. *)
(* price is -1 or a position in outfits.  The k loop hands the entry's name *)
(* to strcmp once per name already in the result: a null name is a fault    *)
(* there unless the result is still empty.                                  *)
RECURSIVE getTech_cheapest(_, _, _, _, _, _)
getTech_cheapest(stack, outfits, names, type, j, price) ==
    IF j > Len(outfits)
    THEN [fault |-> FALSE, price |-> price]
    ELSE LET o == stack[outfits[j]]
         IN  IF o.type # type
             THEN getTech_cheapest(stack, outfits, names, type, j + 1, price)
             ELSE IF price = -1 \/ stack[outfits[price]].price > o.price
                  THEN IF names # <<>> /\ o.name = NULL
                       THEN [fault |-> TRUE, price |-> price]
                       ELSE IF \E k \in 1 .. Len(names) : names[k] = o.name
                            THEN getTech_cheapest(stack, outfits, names, type, j + 1, price)
                            ELSE getTech_cheapest(stack, outfits, names, type, j + 1, j)
                  ELSE getTech_cheapest(stack, outfits, names, type, j + 1, price)

(* "sort by type": the while loop from the given type on.  strdup of a null *)
(* name is a fault.                                                         *)
RECURSIVE getTech_sort(_, _, _, _, _)
getTech_sort(stack, outfits, type, names, picked) ==
    IF type >= OUTFIT_TYPE_SENTINEL
    THEN [fault |-> FALSE, names |-> names, picked |-> picked]
    ELSE LET c == getTech_cheapest(stack, outfits, names, type, 1, -1)
         IN  IF c.fault
             THEN [fault |-> TRUE, names |-> names, picked |-> picked]
             ELSE IF c.price = -1
                  THEN getTech_sort(stack, outfits, type + 1, names, picked)
                  ELSE IF stack[outfits[c.price]].name = NULL
                       THEN [fault |-> TRUE, names |-> names, picked |-> picked]
                       ELSE getTech_sort(stack, outfits, type,
                                Append(names, stack[outfits[c.price]].name),
                                Append(picked, c.price))

(* outfit_getTech that gathers the candidates in the stack itself instead   *)
(* of in an array of pointers.                                              *)
outfit_getTechInPlace(tech) ==
    /\ ~crashed
    /\ LET outfits == getTech_available(outfit_stack, tech, 1, <<>>)
           overrun == Len(outfits) > Len(outfit_stack)
           r == getTech_sort(outfit_stack, outfits, OUTFIT_TYPE_NULL + 1, <<>>, <<>>)
       IN  \E heap \in IF overrun THEN {"intact", "corrupt"} ELSE {"intact"},
              mem \in Memory :
               LET lost == heap = "corrupt" \/ mem = "fault"
                   fault == lost \/ r.fault
               IN  /\ ret' = [op |-> "getTech", tech |-> tech,
                              status |-> IF fault THEN "fault" ELSE "returned",
                              outfits |-> IF mem = "fault" THEN <<>> ELSE outfits,
                              names |-> IF lost THEN <<>> ELSE r.names,
                              picked |-> IF lost THEN <<>> ELSE r.picked,
                              mem |-> mem]
                   /\ crashed' = fault
                   /\ outfit_stack' =
                         [k \in 1 .. Len(outfit_stack) |->
                             IF k <= Len(outfits) THEN outfit_stack[outfits[k]]
                             ELSE outfit_stack[k]]
    /\ UNCHANGED <<doc, calc, reg, released>>

(* The call.  Writing more than outfit_nstack pointers into outfits runs    *)
(* over the end of the allocation: the call then either goes on as if the   *)
(* array had held them, or ends the process.                                *)
outfit_getTech(tech) ==
    /\ ~crashed
    /\ LET outfits == getTech_available(outfit_stack, tech, 1, <<>>)
           overrun == Len(outfits) > Len(outfit_stack)
           r == getTech_sort(outfit_stack, outfits, OUTFIT_TYPE_NULL + 1, <<>>, <<>>)
       IN  \E heap \in IF overrun THEN {"intact", "corrupt"} ELSE {"intact"},
              mem \in Memory :
               LET lost == heap = "corrupt" \/ mem = "fault"
                   fault == lost \/ r.fault
               IN  /\ ret' = [op |-> "getTech", tech |-> tech,
                              status |-> IF fault THEN "fault" ELSE "returned",
                              outfits |-> IF mem = "fault" THEN <<>> ELSE outfits,
                              names |-> IF lost THEN <<>> ELSE r.names,
                              picked |-> IF lost THEN <<>> ELSE r.picked,
                              mem |-> mem]
                   /\ crashed' = fault
    /\ UNCHANGED <<doc, outfit_stack, calc, reg, released>>

(* outfit_getTech step by step: the call up to the while loop, one pass of  *)
(* the while loop, and the return.  While the call runs, ret holds its      *)
(* locals: type, the array outfits, the names so far, and in iters the      *)
(* number of passes made.                                                   *)
Running == ret.op = "getTech" /\ ret.status = "running"

getTech_begin(tech) ==
    /\ ~crashed
    /\ ~Running
    /\ LET outfits == getTech_available(outfit_stack, tech, 1, <<>>)
           overrun == Len(outfits) > Len(outfit_stack)
       IN  \E heap \in IF overrun THEN {"intact", "corrupt"} ELSE {"intact"},
              mem \in Memory :
               LET lost == heap = "corrupt" \/ mem = "fault"
               IN  /\ ret' = [op |-> "getTech", tech |-> tech,
                              status |-> IF lost THEN "fault" ELSE "running",
                              outfits |-> IF mem = "fault" THEN <<>> ELSE outfits,
                              names |-> <<>>, picked |-> <<>>, mem |-> mem,
                              type |-> OUTFIT_TYPE_NULL + 1, iters |-> 0]
                   /\ crashed' = lost
    /\ UNCHANGED <<doc, outfit_stack, calc, reg, released>>

(* One pass in which the entry found is appended whether or not its name is *)
(* in the result already; the passes are capped.                            *)
getTech_iterateRepeating ==
    /\ ~crashed
    /\ Running
    /\ ret.type < OUTFIT_TYPE_SENTINEL
    /\ ret.iters <= OUTFIT_TYPE_SENTINEL + Len(ret.outfits)
    /\ LET c == getTech_cheapest(outfit_stack, ret.outfits, <<>>, ret.type, 1, -1)
       IN  IF c.price = -1
           THEN /\ ret' = [ret EXCEPT !.type = @ + 1, !.iters = @ + 1]
                /\ UNCHANGED crashed
           ELSE IF outfit_stack[ret.outfits[c.price]].name = NULL
                THEN /\ ret' = [ret EXCEPT !.status = "fault", !.iters = @ + 1]
                     /\ crashed' = TRUE
                ELSE /\ ret' = [ret EXCEPT
                                  !.names = Append(@, outfit_stack[ret.outfits[c.price]].name),
                                  !.picked = Append(@, c.price),
                                  !.iters = @ + 1]
                     /\ UNCHANGED crashed
    /\ UNCHANGED <<doc, outfit_stack, calc, reg, released>>

getTech_iterate ==
    /\ ~crashed
    /\ Running
    /\ ret.type < OUTFIT_TYPE_SENTINEL
    /\ LET c == getTech_cheapest(outfit_stack, ret.outfits, ret.names, ret.type, 1, -1)
       IN  IF c.fault
           THEN /\ ret' = [ret EXCEPT !.status = "fault", !.iters = @ + 1]
                /\ crashed' = TRUE
           ELSE IF c.price = -1
           THEN /\ ret' = [ret EXCEPT !.type = @ + 1, !.iters = @ + 1]
                /\ UNCHANGED crashed
           ELSE IF outfit_stack[ret.outfits[c.price]].name = NULL
                THEN /\ ret' = [ret EXCEPT !.status = "fault", !.iters = @ + 1]
                     /\ crashed' = TRUE
                ELSE /\ ret' = [ret EXCEPT
                                  !.names = Append(@, outfit_stack[ret.outfits[c.price]].name),
                                  !.picked = Append(@, c.price),
                                  !.iters = @ + 1]
                     /\ UNCHANGED crashed
    /\ UNCHANGED <<doc, outfit_stack, calc, reg, released>>

getTech_return ==
    /\ ~crashed
    /\ Running
    /\ ret.type >= OUTFIT_TYPE_SENTINEL
    /\ ret' = [ret EXCEPT !.status = "returned"]
    /\ UNCHANGED <<doc, outfit_stack, crashed, calc, reg, released>>

-----------------------------------------------------------------------------
(* The accessors.  Each gives the union member it reads ("none" when it     *)
(* returns its constant) and the value it returns.  A read of a member the  *)
(* parser did not write takes the bytes of the member that was written:     *)
(* the value ov, chosen by the caller among the values such a read can      *)
(* give.                                                                    *)

u_field(o, member, field, ov) ==
    IF o.u.member = member THEN o.u[field] ELSE ov

outfit_gfx(o, ov) ==
    IF outfit_isBolt(o.type)
    THEN [reads |-> "blt", value |-> u_field(o, "blt", "gfx_space", ov)]
    ELSE IF outfit_isAmmo(o.type)
    THEN [reads |-> "amm", value |-> u_field(o, "amm", "gfx_space", ov)]
    ELSE IF outfit_isTurret(o.type)
    THEN [reads |-> "blt", value |-> u_field(o, "blt", "gfx_space", ov)]
    ELSE [reads |-> "none", value |-> NULL]

outfit_spfx(o, ov) ==
    IF outfit_isBolt(o.type)
    THEN [reads |-> "blt", value |-> u_field(o, "blt", "spfx", ov)]
    ELSE IF outfit_isAmmo(o.type)
    THEN [reads |-> "amm", value |-> u_field(o, "amm", "spfx", ov)]
    ELSE IF outfit_isTurret(o.type)
    THEN [reads |-> "blt", value |-> u_field(o, "blt", "spfx", ov)]
    ELSE [reads |-> "none", value |-> -1]

outfit_damage(o, ov) ==
    IF outfit_isBolt(o.type)
    THEN [reads |-> "blt", value |-> u_field(o, "blt", "damage", ov)]
    ELSE IF outfit_isBeam(o.type)
    THEN [reads |-> "bem", value |-> u_field(o, "bem", "damage", ov)]
    ELSE IF outfit_isAmmo(o.type)
    THEN [reads |-> "amm", value |-> u_field(o, "amm", "damage", ov)]
    ELSE IF outfit_isTurret(o.type)
    THEN [reads |-> "blt", value |-> u_field(o, "blt", "damage", ov)]
    ELSE [reads |-> "none", value |-> Q(-1, 1)]

outfit_damageType(o, ov) ==
    IF outfit_isBolt(o.type)
    THEN [reads |-> "blt", value |-> u_field(o, "blt", "dtype", ov)]
    ELSE IF outfit_isBeam(o.type)
    THEN [reads |-> "bem", value |-> u_field(o, "bem", "dtype", ov)]
    ELSE IF outfit_isAmmo(o.type)
    THEN [reads |-> "amm", value |-> u_field(o, "amm", "dtype", ov)]
    ELSE IF outfit_isTurret(o.type)
    THEN [reads |-> "blt", value |-> u_field(o, "blt", "dtype", ov)]
    ELSE [reads |-> "none", value |-> DAMAGE_TYPE_NULL]

(* The int that outfit_delay returns: the delay without its fraction.       *)
outfit_delay(o, ov) ==
    IF outfit_isBolt(o.type)
    THEN [reads |-> "blt", value |-> QTrunc(u_field(o, "blt", "delay", ov))]
    ELSE IF outfit_isBeam(o.type)
    THEN [reads |-> "bem", value |-> QTrunc(u_field(o, "bem", "delay", ov))]
    ELSE IF outfit_isLauncher(o.type)
    THEN [reads |-> "lau", value |-> QTrunc(u_field(o, "lau", "delay", ov))]
    ELSE IF outfit_isTurret(o.type)
    THEN [reads |-> "blt", value |-> QTrunc(u_field(o, "blt", "delay", ov))]
    ELSE [reads |-> "none", value |-> -1]

(* outfit_energy that has a branch for the jammer's energy as well.         *)
outfit_energyOfJammer(o, ov) ==
    IF outfit_isBolt(o.type)
    THEN [reads |-> "blt", value |-> u_field(o, "blt", "energy", ov)]
    ELSE IF outfit_isBeam(o.type)
    THEN [reads |-> "bem", value |-> u_field(o, "bem", "energy", ov)]
    ELSE IF outfit_isAmmo(o.type)
    THEN [reads |-> "amm", value |-> u_field(o, "amm", "energy", ov)]
    ELSE IF outfit_isJammer(o.type)
    THEN [reads |-> "jam", value |-> u_field(o, "jam", "energy", ov)]
    ELSE [reads |-> "none", value |-> Q(-1, 1)]

outfit_energy(o, ov) ==
    IF outfit_isBolt(o.type)
    THEN [reads |-> "blt", value |-> u_field(o, "blt", "energy", ov)]
    ELSE IF outfit_isBeam(o.type)
    THEN [reads |-> "bem", value |-> u_field(o, "bem", "energy", ov)]
    ELSE IF outfit_isAmmo(o.type)
    THEN [reads |-> "amm", value |-> u_field(o, "amm", "energy", ov)]
    ELSE IF outfit_isTurret(o.type)
    THEN [reads |-> "blt", value |-> u_field(o, "blt", "energy", ov)]
    ELSE [reads |-> "none", value |-> Q(-1, 1)]

(* outfit_range without the factor 0.8 on the ammunition's flight.          *)
outfit_rangeWhole(o, ov) ==
    IF outfit_isBolt(o.type)
    THEN [reads |-> "blt", value |-> u_field(o, "blt", "range", ov)]
    ELSE IF outfit_isBeam(o.type)
    THEN [reads |-> "bem", value |-> u_field(o, "bem", "range", ov)]
    ELSE IF outfit_isAmmo(o.type)
    THEN [reads |-> "amm",
          value |-> Q(u_field(o, "amm", "speed", ov).n
                        * u_field(o, "amm", "duration", ov).n,
                      u_field(o, "amm", "speed", ov).d
                        * u_field(o, "amm", "duration", ov).d)]
    ELSE IF outfit_isTurret(o.type)
    THEN [reads |-> "blt", value |-> u_field(o, "blt", "range", ov)]
    ELSE [reads |-> "none", value |-> Q(-1, 1)]

outfit_range(o, ov) ==
    IF outfit_isBolt(o.type)
    THEN [reads |-> "blt", value |-> u_field(o, "blt", "range", ov)]
    ELSE IF outfit_isBeam(o.type)
    THEN [reads |-> "bem", value |-> u_field(o, "bem", "range", ov)]
    ELSE IF outfit_isAmmo(o.type)
    THEN [reads |-> "amm",
          value |-> QRange(u_field(o, "amm", "speed", ov),
                           u_field(o, "amm", "duration", ov))]
    ELSE IF outfit_isTurret(o.type)
    THEN [reads |-> "blt", value |-> u_field(o, "blt", "range", ov)]
    ELSE [reads |-> "none", value |-> Q(-1, 1)]

outfit_speed(o, ov) ==
    IF outfit_isBolt(o.type)
    THEN [reads |-> "blt", value |-> u_field(o, "blt", "speed", ov)]
    ELSE IF outfit_isAmmo(o.type)
    THEN [reads |-> "amm", value |-> u_field(o, "amm", "speed", ov)]
    ELSE IF outfit_isTurret(o.type)
    THEN [reads |-> "blt", value |-> u_field(o, "blt", "speed", ov)]
    ELSE [reads |-> "none", value |-> Q(-1, 1)]

(* A pointer that is none of those load acquired.                          *)
Overlaid == <<"overlay">>

Accessors ==
    {"outfit_gfx", "outfit_spfx", "outfit_damage", "outfit_damageType",
     "outfit_delay", "outfit_energy", "outfit_range", "outfit_speed"}

(* What a read through the wrong union member can give: the bytes that are  *)
(* there are zero or are not.                                               *)
Overlay(fn) ==
    CASE fn = "outfit_gfx" -> {NULL, Overlaid}
      [] fn \in {"outfit_spfx", "outfit_damageType"} -> {0, 1}
      [] OTHER -> {Q(0, 1), Q(1, 1)}

Accessor(fn, o, ov) ==
    CASE fn = "outfit_gfx" -> outfit_gfx(o, ov)
      [] fn = "outfit_spfx" -> outfit_spfx(o, ov)
      [] fn = "outfit_damage" -> outfit_damage(o, ov)
      [] fn = "outfit_damageType" -> outfit_damageType(o, ov)
      [] fn = "outfit_delay" -> outfit_delay(o, ov)
      [] fn = "outfit_energy" -> outfit_energy(o, ov)
      [] fn = "outfit_range" -> outfit_range(o, ov)
      [] fn = "outfit_speed" -> outfit_speed(o, ov)

(* The accessors that return an int or a DamageType.                        *)
IntAccessors == {"outfit_spfx", "outfit_damageType", "outfit_delay"}

(* A call of the accessor fn on the i-th entry of the stack; what it        *)
(* returned is kept under the name of its C type.                           *)
Access(fn, i) ==
    /\ ~crashed
    /\ i \in 1 .. Len(outfit_stack)
    /\ \E ov \in Overlay(fn) :
          LET r == Accessor(fn, outfit_stack[i], ov)
              call == [op |-> "accessor", fn |-> fn, idx |-> i,
                       status |-> "returned", reads |-> r.reads]
          IN  ret' = IF fn = "outfit_gfx"
                     THEN call @@ [texture |-> r.value]
                     ELSE IF fn \in IntAccessors
                          THEN call @@ [int |-> r.value]
                          ELSE call @@ [double |-> r.value]
    /\ UNCHANGED <<doc, outfit_stack, crashed, calc, reg, released>>

(* The type predicates, outfit_getType and outfit_getTypeBroad on the i-th  *)
(* entry of the stack.                                                      *)
Predicates(i) ==
    /\ ~crashed
    /\ i \in 1 .. Len(outfit_stack)
    /\ LET t == outfit_stack[i].type
       IN  ret' = [op |-> "predicates", idx |-> i,
                   isWeapon |-> outfit_isWeapon(t), isBolt |-> outfit_isBolt(t),
                   isBeam |-> outfit_isBeam(t),
                   isLauncher |-> outfit_isLauncher(t),
                   isAmmo |-> outfit_isAmmo(t), isTurret |-> outfit_isTurret(t),
                   isMod |-> outfit_isMod(t),
                   isAfterburner |-> outfit_isAfterburner(t),
                   isJammer |-> outfit_isJammer(t), isMap |-> outfit_isMap(t),
                   getType |-> outfit_getType(t),
                   getTypeBroad |-> outfit_getTypeBroad(t)]
    /\ UNCHANGED <<doc, outfit_stack, crashed, calc, reg, released>>

-----------------------------------------------------------------------------
(* outfit_free.  released is the sequence of the pointers it hands to       *)
(* gl_freeTexture and free, each with the entry and the field it was read   *)
(* from; the last is the stack itself.  outfit_stack and outfit_nstack are  *)
(* not assigned.  ov[i] is what the read of the i-th entry's u.blt through  *)
(* another member gives; gl_freeTexture of a pointer that is no texture     *)
(* ends the process or goes on.                                             *)

outfit_free_entry(o, i, ov) ==
    LET g == outfit_gfx(o, ov).value
    IN  (IF g # NULL THEN <<[idx |-> i, field |-> "gfx", ptr |-> g]>> ELSE <<>>)
        \o (IF outfit_isLauncher(o.type) /\ o.u.ammo # NULL
            THEN <<[idx |-> i, field |-> "ammo", ptr |-> o.u.ammo]>> ELSE <<>>)
        \o (IF o.description # NULL
            THEN <<[idx |-> i, field |-> "description", ptr |-> o.description]>>
            ELSE <<>>)
        \o (IF o.gfx_store # NULL
            THEN <<[idx |-> i, field |-> "gfx_store", ptr |-> o.gfx_store]>>
            ELSE <<>>)
        \o <<[idx |-> i, field |-> "name", ptr |-> o.name]>>

RECURSIVE outfit_free_from(_, _, _)
outfit_free_from(stack, ov, i) ==
    IF i > Len(stack)
    THEN <<[idx |-> 0, field |-> "outfit_stack", ptr |-> <<"outfit_stack">>]>>
    ELSE outfit_free_entry(stack[i], i, ov[i]) \o outfit_free_from(stack, ov, i + 1)

(* The log up to the first pointer that is no texture, that pointer         *)
(* included.                                                                *)
RECURSIVE UpToOverlaid(_)
UpToOverlaid(log) ==
    IF log = <<>> THEN <<>>
    ELSE IF Head(log).ptr = Overlaid THEN <<Head(log)>>
    ELSE <<Head(log)>> \o UpToOverlaid(Tail(log))

outfit_free ==
    /\ ~crashed
    /\ released = <<>>
    /\ \E ov \in [1 .. Len(outfit_stack) -> Overlay("outfit_gfx")] :
          LET log == outfit_free_from(outfit_stack, ov, 1)
              wild == \E k \in 1 .. Len(log) : log[k].ptr = Overlaid
          IN  \E fault \in IF wild THEN BOOLEAN ELSE {FALSE} :
                 /\ released' = IF fault THEN UpToOverlaid(log) ELSE log
                 /\ crashed' = fault
                 /\ ret' = [op |-> "free",
                            status |-> IF fault THEN "fault" ELSE "returned"]
    /\ UNCHANGED <<doc, outfit_stack, calc, reg>>

-----------------------------------------------------------------------------
(* Calls of the damage model and of the type registry.                      *)

CalcDamage(dtype, dmg) ==
    /\ LET r == outfit_calcDamage(dtype, dmg)
       IN  calc' = [dtype |-> dtype, dmg |-> dmg, dshield |-> r.dshield,
                    darmour |-> r.darmour, knockback |-> r.knockback,
                    warn |-> r.warn, called |-> TRUE]
    /\ UNCHANGED <<doc, outfit_stack, crashed, ret, reg, released>>

(* outfit_getType and outfit_getTypeBroad of an outfit of type t.           *)
Describe(t) ==
    /\ reg' = [reg EXCEPT !.type = t, !.name = Str(outfit_getType(t)),
                          !.broad = outfit_getTypeBroad(t)]
    /\ UNCHANGED <<doc, outfit_stack, crashed, ret, calc, released>>

(* outfit_strToOutfitType of a string, and the broad type of what it gave.  *)
ParseType(buf) ==
    /\ LET r == outfit_strToOutfitType(buf)
       IN  reg' = [reg EXCEPT !.buf = buf, !.parsed = r.type, !.warn = r.warn,
                              !.parsedBroad = outfit_getTypeBroad(r.type)]
    /\ UNCHANGED <<doc, outfit_stack, crashed, ret, calc, released>>

(* The round trip: the display name of t handed to the parser.              *)
ParseDisplayName(t) ==
    /\ LET buf == Str(outfit_getType(t))
           r == outfit_strToOutfitType(buf)
       IN  reg' = [type |-> t, name |-> buf, broad |-> outfit_getTypeBroad(t),
                   buf |-> buf, parsed |-> r.type, warn |-> r.warn,
                   parsedBroad |-> outfit_getTypeBroad(r.type)]
    /\ UNCHANGED <<doc, outfit_stack, crashed, ret, calc, released>>

-----------------------------------------------------------------------------
(* The inputs: data files, names, tech lists, damage calls, type strings.   *)

RECURSIVE SeqsOfLen(_, _)
SeqsOfLen(S, n) ==
    IF n = 0 THEN {<<>>}
    ELSE {Append(q, x) : q \in SeqsOfLen(S, n - 1), x \in S}

SeqsUpTo(S, n) == UNION {SeqsOfLen(S, k) : k \in 0 .. n}

(* An element whose "general" section has tech and price only and whose    *)
(* "specific" section has no child the parsers know.                        *)
Element(tag, name, type, tech, price) ==
    [tag |-> tag, name |-> name, type |-> type, tech |-> tech, price |-> price,
     description |-> NULL, gfx_store |-> NULL, nodes |-> <<>>]

(* Data files of the catalogue specification: outfits with and without a    *)
(* name, with a resolvable, an unresolvable and no type attribute, and a    *)
(* child of the root that is no outfit; roots with the right and with       *)
(* another tag.                                                             *)
CatElements ==
    {Element(XML_OUTFIT_TAG, n, t, 1, 1) :
        n \in {NULL, Str("A"), Str("B")},
        t \in {NULL, Str("bolt"), Str("laser")}}
    \cup {Element("text", NULL, NULL, 0, 0)}

CatDocs ==
    {[root |-> r, children |-> c] :
        r \in {XML_OUTFIT_ID, "Ships"}, c \in SeqsUpTo(CatElements, MaxDoc)}

GetNames == {Str("A"), Str("B"), Str("C")}

CatTechLists == {<<1>>, <<0>>}

(* Data files of the sorting specification: bolts and bolt turrets (one     *)
(* broad type) of two names and two prices, a beam, all of tech 1, and one  *)
(* bolt of tech 2.                                                          *)
SortElements ==
    {Element(XML_OUTFIT_TAG, n, t, 1, p) :
        n \in {Str("A"), Str("B")},
        t \in {Str("bolt"), Str("turret bolt")},
        p \in {1, 2}}
    \cup {Element(XML_OUTFIT_TAG, Str("C"), Str("beam"), 1, 1),
          Element(XML_OUTFIT_TAG, Str("A"), Str("bolt"), 2, 1)}

SortDocs ==
    {[root |-> XML_OUTFIT_ID, children |-> c] : c \in SeqsUpTo(SortElements, MaxSortDoc)}

(* Tech lists that take every outfit of tech 1 once, and once per           *)
(* occurrence of the special tech 1.                                        *)
SortTechLists == {<<1>>, <<0, 1, 1>>}

(* Data files of the tech specification: outfits of tech 1 to 3, with and   *)
(* without a name; tech lists over 1..2 of every length up to MaxTechLen.   *)
TechElements ==
    {Element(XML_OUTFIT_TAG, n, Str("bolt"), t, 1) :
        n \in {NULL, Str("A"), Str("B")}, t \in {1, 2, 3}}

TechDocs == {[root |-> XML_OUTFIT_ID, children |-> c] : c \in SeqsUpTo(TechElements, MaxDoc)}

TechLists == SeqsUpTo({1, 2}, MaxTechLen) \ {<<>>}

(* Damage type codes: the enumerators and two codes past the last.          *)
DamageCodes == DAMAGE_TYPE_NULL .. DAMAGE_TYPE_RADIATION + 2

(* Strings handed to the type-string parser: the strings it compares with,  *)
(* the display names, and others.                                           *)
TypeStrings ==
    {Str(O_CMP[k][1]) : k \in 1 .. Len(O_CMP)}
    \cup {Str(outfit_typename[k]) : k \in 1 .. Len(outfit_typename)}
    \cup {Str("laser"), Str("Bolt"), Str("")}

(* Children of a "specific" section: a number, a text, a damage element.    *)
Num(tag, n, d) == [tag |-> tag, num |-> Q(n, d), text |-> NULL, attr |-> NULL]

Txt(tag, text) == [tag |-> tag, num |-> Q(0, 1), text |-> Str(text), attr |-> NULL]

Damage(type, n) == [tag |-> "damage", num |-> Q(n, 1), text |-> NULL, attr |-> type]

(* The "Laser Cannon": delay 500, speed 800, range 1400, accuracy 10,       *)
(* energy 2, kinetic damage 12, with graphic, effect and sound.             *)
LaserCannon ==
    <<Num("delay", 500, 1), Num("speed", 800, 1), Num("range", 1400, 1),
      Num("accuracy", 10, 1), Num("energy", 2, 1), Damage(Str("kinetic"), 12),
      Txt("gfx", "laser"), Txt("spfx", "ExpM"), Txt("sound", "missile")>>

(* Every tag one of the parsers knows, with a delay and a speed that are    *)
(* no integers, chance 40 and energy 12.                                    *)
EveryTag ==
    <<Num("delay", 5, 2), Num("speed", 3, 2), Num("range", 300, 1),
      Num("accuracy", 10, 1), Num("energy", 12, 1), Damage(Str("ion"), 7),
      Txt("gfx", "missile"), Txt("spfx", "ExpS"), Txt("sound", "laser"),
      Num("duration", 5, 1), Num("lockon", 1, 1), Num("resist", 50, 1),
      Num("thrust", 2, 1), Num("turn", 3, 1), Num("chance", 40, 1),
      Num("armour_regen", 30, 1), Num("shield_regen", 90, 1),
      Num("energy_regen", 6, 1), Num("thrust_perc", 50, 1),
      Num("speed_perc", 20, 1), Txt("ammo", "Missile"), Num("radius", 3, 1)>>

(* Names the registries do not hold and a damage type that is none.         *)
Unregistered ==
    <<Txt("gfx", "nofile"), Txt("spfx", "nofx"), Txt("sound", "nosound"),
      Damage(Str("plasma"), 1)>>

(* A damage element without type attribute.                                 *)
UntypedDamage == <<Damage(NULL, 1)>>

(* The outfit's "general" texts with its "specific" children.               *)
OutfitSections ==
    {[description |-> Str("A laser."), gfx_store |-> Str("laser"), nodes |-> LaserCannon],
     [description |-> Str("Everything."), gfx_store |-> Str("nofile"), nodes |-> EveryTag],
     [description |-> NULL, gfx_store |-> Str("missile"), nodes |-> Unregistered],
     [description |-> NULL, gfx_store |-> NULL, nodes |-> UntypedDamage],
     [description |-> NULL, gfx_store |-> NULL, nodes |-> <<>>]}

(* Data files of the outfit specification: one outfit of every type string  *)
(* and of a string that is no type, with each of the sections.              *)
OutfitElements ==
    {[tag |-> XML_OUTFIT_TAG, name |-> Str("A"), type |-> t, tech |-> 1,
      price |-> 1, description |-> s.description, gfx_store |-> s.gfx_store,
      nodes |-> s.nodes] :
        t \in {Str(O_CMP[k][1]) : k \in 1 .. Len(O_CMP)} \cup {Str("laser")},
        s \in OutfitSections}

OutfitDocs == {[root |-> XML_OUTFIT_ID, children |-> <<e>>] : e \in OutfitElements}

(* Data files of the query specification: a bolt, a turret beam of a higher *)
(* tech and ammunition, each with a section of its own.                     *)
QueryBolt ==
    [tag |-> XML_OUTFIT_TAG, name |-> Str("A"), type |-> Str("bolt"), tech |-> 1,
     price |-> 2, description |-> Str("A laser."), gfx_store |-> Str("laser"),
     nodes |-> LaserCannon]

QueryTurret ==
    [tag |-> XML_OUTFIT_TAG, name |-> Str("B"), type |-> Str("turret beam"),
     tech |-> 2, price |-> 1, description |-> NULL, gfx_store |-> NULL,
     nodes |-> EveryTag]

QueryAmmo ==
    [tag |-> XML_OUTFIT_TAG, name |-> Str("C"), type |-> Str("missile seek ammo"),
     tech |-> 1, price |-> 1, description |-> NULL, gfx_store |-> NULL,
     nodes |-> <<>>]

QueryDocs ==
    {[root |-> XML_OUTFIT_ID, children |-> c] :
        c \in {<<QueryBolt>>, <<QueryTurret, QueryBolt>>, <<QueryAmmo, QueryTurret>>}}

(* Data files of the loop specification: two bolts of one name, a turret,   *)
(* an outfit whose type string is none, and an outfit without name.         *)
LoopElements ==
    {Element(XML_OUTFIT_TAG, Str("A"), Str("bolt"), 1, 1),
     Element(XML_OUTFIT_TAG, Str("A"), Str("bolt"), 1, 2),
     Element(XML_OUTFIT_TAG, Str("B"), Str("turret bolt"), 1, 1),
     Element(XML_OUTFIT_TAG, Str("C"), Str("laser"), 1, 1),
     Element(XML_OUTFIT_TAG, NULL, Str("map"), 1, 1)}

LoopDocs ==
    {[root |-> XML_OUTFIT_ID, children |-> c] : c \in SeqsUpTo(LoopElements, MaxDoc)}

LoopTechLists == {<<1>>, <<0, 1, 1>>}

-----------------------------------------------------------------------------
(* The specifications.                                                      *)

NoCall == [op |-> "none"]

NoCalc ==
    [dtype |-> DAMAGE_TYPE_NULL, dmg |-> 0, dshield |-> 0, darmour |-> 0,
     knockback |-> 0, warn |-> FALSE, called |-> FALSE]

NoReg ==
    [type |-> OUTFIT_TYPE_NULL, name |-> NULL, broad |-> "", buf |-> NULL,
     parsed |-> OUTFIT_TYPE_NULL, warn |-> FALSE, parsedBroad |-> ""]

InitWith(docs) ==
    /\ doc \in docs
    /\ outfit_stack = <<>>
    /\ crashed = FALSE
    /\ ret = NoCall
    /\ calc = NoCalc
    /\ reg = NoReg
    /\ released = <<>>

(* The catalogue: load, get and getTech on any data file.                   *)
Init == InitWith(CatDocs)

Get == \E name \in GetNames : outfit_get(name)

GetTech == \E tech \in CatTechLists : outfit_getTech(tech)

Next == outfit_load \/ Get \/ GetTech

Spec == Init /\ [][Next]_vars

(* Sorting: getTech on catalogues of several types, names and prices.       *)
InitSort == InitWith(SortDocs)

GetTechSort == \E tech \in SortTechLists : outfit_getTech(tech)

NextSort == outfit_load \/ GetTechSort

SpecSort == InitSort /\ [][NextSort]_vars

(* Tech filtering: getTech on catalogues of several tech levels.            *)
InitTech == InitWith(TechDocs)

GetTechTech == \E tech \in TechLists : outfit_getTech(tech)

NextTech == outfit_load \/ GetTechTech

SpecTech == InitTech /\ [][NextTech]_vars


(* The outfits: load of one outfit, the accessors and predicates on the     *)
(* entries, and outfit_free, which runs when the program exits.             *)
InitOutfit == InitWith(OutfitDocs)

LoadOutfit == released = <<>> /\ outfit_load

AccessAny ==
    /\ released = <<>>
    /\ \E fn \in Accessors, i \in 1 .. Len(outfit_stack) : Access(fn, i)

PredicatesAny ==
    /\ released = <<>>
    /\ \E i \in 1 .. Len(outfit_stack) : Predicates(i)

NextOutfit == LoadOutfit \/ AccessAny \/ PredicatesAny \/ outfit_free

SpecOutfit == InitOutfit /\ [][NextOutfit]_vars


(* The queries: after the load, outfit_get, outfit_getTech,                 *)
(* outfit_calcDamage, the predicates and the accessors in any order.        *)
InitQuery == InitWith(QueryDocs)

CalcDamageOnce == CalcDamage(DAMAGE_TYPE_ENERGY, MaxDmg)

AccessLoaded == \E fn \in Accessors, i \in 1 .. Len(outfit_stack) : Access(fn, i)

PredicatesLoaded == \E i \in 1 .. Len(outfit_stack) : Predicates(i)

NextQuery ==
    outfit_load \/ Get \/ GetTech \/ CalcDamageOnce \/ AccessLoaded \/ PredicatesLoaded

SpecQuery == InitQuery /\ [][NextQuery]_vars

(* The end of the program and after: outfit_free, and the look-ups that a   *)
(* caller still makes.                                                      *)
InitFree == InitWith(QueryDocs)

NextFree == LoadOutfit \/ outfit_free \/ Get \/ GetTech

SpecFree == InitFree /\ [][NextFree]_vars

(* The while loop of outfit_getTech pass by pass.  A call that has begun    *)
(* goes on until it returns or the process ends: nothing else runs in the   *)
(* program meanwhile, whence the fairness of its steps.                     *)
InitLoop == InitWith(LoopDocs)

LoadLoop == ~Running /\ outfit_load

BeginLoop == \E tech \in LoopTechLists : getTech_begin(tech)

NextLoop == LoadLoop \/ BeginLoop \/ getTech_iterate \/ getTech_return

SpecLoop ==
    /\ InitLoop
    /\ [][NextLoop]_vars
    /\ WF_vars(getTech_iterate)
    /\ WF_vars(getTech_return)

(* The damage model on every code and magnitude.                            *)
InitDamage == InitWith({[root |-> XML_OUTFIT_ID, children |-> <<>>]})

NextDamage == \E dtype \in DamageCodes, dmg \in 0 .. MaxDmg : CalcDamage(dtype, dmg)

SpecDamage == InitDamage /\ [][NextDamage]_vars

(* The type registry on every type code and string.                         *)
InitType == InitWith({[root |-> XML_OUTFIT_ID, children |-> <<>>]})

DescribeAny == \E t \in OutfitTypes : Describe(t)

ParseAny == \E buf \in TypeStrings : ParseType(buf)

ParseDisplayAny == \E t \in OutfitTypes : ParseDisplayName(t)

NextType == DescribeAny \/ ParseAny \/ ParseDisplayAny

SpecType == InitType /\ [][NextType]_vars

-----------------------------------------------------------------------------
(* Notions the properties below are stated in.                              *)

GetCalled == ret.op = "get"

LoadCalled == ret.op = "load"

GetTechReturned == ret.op = "getTech" /\ ret.status = "returned"

(* The indices of the stack entries whose name equals the string s.         *)
Named(s) == {i \in 1 .. Len(outfit_stack) : outfit_stack[i].name = s}

Least(S) == CHOOSE i \in S : \A j \in S : i <= j

(* The stack entry the k-th name of the last outfit_getTech result was      *)
(* copied from.                                                             *)
Emitted(k) == outfit_stack[ret.outfits[ret.picked[k]]]

(* The stack indices outfit_getTech wrote into its temporary array.         *)
Selected == {ret.outfits[k] : k \in 1 .. Len(ret.outfits)}

(* The outfit children of the data file, in document order.                 *)
OutfitChildren == SelectSeq(doc.children, LAMBDA e : e.tag = XML_OUTFIT_TAG)

(* What the damage table of the design gives, in hundredths.                *)
DamageTable(dtype, dmg) ==
    CASE dtype = DAMAGE_TYPE_ENERGY -> <<110 * dmg, 70 * dmg, 10>>
      [] dtype = DAMAGE_TYPE_KINETIC -> <<80 * dmg, 120 * dmg, 100>>
      [] dtype = DAMAGE_TYPE_ION -> <<100 * dmg, 100 * dmg, 40>>
      [] dtype = DAMAGE_TYPE_RADIATION -> <<15, 100 * dmg, 80>>

DefinedDamageTypes ==
    {DAMAGE_TYPE_ENERGY, DAMAGE_TYPE_KINETIC, DAMAGE_TYPE_ION, DAMAGE_TYPE_RADIATION}

-----------------------------------------------------------------------------
(* C1: after any outfit_get(name), on every catalogue, the call has         *)
(* returned; it returned NULL exactly when no entry has that name, and      *)
(* otherwise the entry of the lowest index whose name equals the argument.  *)
(* Fails: an entry without a name ahead of the match (or in a catalogue     *)
(* without a match) is handed to strcmp, which ends the process (see C26).  *)
C1_GetReturnsFirstMatch ==
    GetCalled =>
        /\ ret.status = "returned"
        /\ (ret.idx = 0) <=> (Named(ret.name) = {})
        /\ Named(ret.name) # {} => ret.idx = Least(Named(ret.name))

(* C2: no two entries of the catalogue have the same name (stated for the   *)
(* entries that have a name).  Fails: outfit_load appends every outfit      *)
(* element without looking at the names already there.                      *)
C2_NamesUnique ==
    \A i, j \in 1 .. Len(outfit_stack) :
        (i # j /\ outfit_stack[i].name # NULL)
        => outfit_stack[i].name # outfit_stack[j].name

(* C3, as claimed: in every result outfit_getTech returns, the outfits of   *)
(* one broad type form one contiguous run.                                  *)
C3_GroupedByBroadType ==
    GetTechReturned =>
        \A i, j, k \in 1 .. Len(ret.names) :
            (i < j /\ j < k
             /\ outfit_getTypeBroad(Emitted(i).type) = outfit_getTypeBroad(Emitted(k).type))
            => outfit_getTypeBroad(Emitted(j).type) = outfit_getTypeBroad(Emitted(i).type)

(* C3, amended: in every result outfit_getTech returns, the names are       *)
(* grouped by the exact outfit type, the groups in ascending order of the   *)
(* type code: the type codes of the entries the names were copied from      *)
(* never decrease along the result.                                         *)
C3_GroupedByType ==
    GetTechReturned =>
        \A i, j \in 1 .. Len(ret.names) :
            i < j => Emitted(i).type <= Emitted(j).type

(* A result of three names whose broad types are not contiguous.            *)
C3_Witness ==
    /\ GetTechReturned
    /\ Len(ret.names) = 3
    /\ outfit_getTypeBroad(Emitted(1).type) = outfit_getTypeBroad(Emitted(3).type)
    /\ outfit_getTypeBroad(Emitted(2).type) # outfit_getTypeBroad(Emitted(1).type)

(* C4, as claimed: in every result outfit_getTech returns, the prices       *)
(* within one broad type never decrease along the result.                   *)
C4_AscendingWithinBroadType ==
    GetTechReturned =>
        \A i, j \in 1 .. Len(ret.names) :
            (i < j
             /\ outfit_getTypeBroad(Emitted(i).type) = outfit_getTypeBroad(Emitted(j).type))
            => Emitted(i).price <= Emitted(j).price

(* C4, amended: in every result outfit_getTech returns, within the names of *)
(* one exact outfit type the prices of the entries the names were copied    *)
(* from never decrease along the result.                                    *)
C4_AscendingWithinType ==
    GetTechReturned =>
        \A i, j \in 1 .. Len(ret.names) :
            (i < j /\ Emitted(i).type = Emitted(j).type)
            => Emitted(i).price <= Emitted(j).price

(* A result with two names of one type and different prices.                *)
C4_Witness ==
    /\ GetTechReturned
    /\ \E i, j \in 1 .. Len(ret.names) :
           /\ i < j
           /\ Emitted(i).type = Emitted(j).type
           /\ Emitted(i).price < Emitted(j).price

(* C5: no name occurs twice in a result outfit_getTech returns (in no       *)
(* group, since in none at all), also when the catalogue holds a name twice *)
(* and the tech list repeats a value.                                       *)
C5_NoNameTwice ==
    GetTechReturned =>
        \A i, j \in 1 .. Len(ret.names) : i # j => ret.names[i] # ret.names[j]

(* A returned result for a tech list with a repeated value, on a catalogue  *)
(* with two selected entries of one name and type, the name in the result.  *)
C5_Witness ==
    /\ GetTechReturned
    /\ \E a, b \in 1 .. Len(ret.tech) : a # b /\ ret.tech[a] = ret.tech[b]
    /\ \E i, j \in Selected :
           /\ i # j
           /\ outfit_stack[i].name = outfit_stack[j].name
           /\ outfit_stack[i].type = outfit_stack[j].type
           /\ \E k \in 1 .. Len(ret.names) : ret.names[k] = outfit_stack[i].name

(* C6, as claimed: outfit_getTech selects an entry exactly when its tech is *)
(* the base tech (the first of the list) or one of the further techs.       *)
C6_SelectsEqualTech ==
    GetTechReturned =>
        \A i \in 1 .. Len(outfit_stack) :
            i \in Selected <=>
                \/ outfit_stack[i].tech = ret.tech[1]
                \/ \E j \in 2 .. Len(ret.tech) : ret.tech[j] = outfit_stack[i].tech

(* C6, amended: outfit_getTech selects an entry exactly when its tech is at *)
(* most the base tech or equals one of the techs of the list; every name of *)
(* the result is the name of a selected entry.                              *)
C6_SelectsUpToBaseTech ==
    GetTechReturned =>
        /\ \A i \in 1 .. Len(outfit_stack) :
               i \in Selected <=>
                   \/ outfit_stack[i].tech <= ret.tech[1]
                   \/ \E j \in 1 .. Len(ret.tech) : ret.tech[j] = outfit_stack[i].tech
        /\ \A k \in 1 .. Len(ret.names) :
               \E i \in Selected : ret.names[k] = outfit_stack[i].name

(* A returned result that holds an entry of a tech below the base tech and  *)
(* leaves out an entry of a tech above it.                                  *)
C6_Witness ==
    /\ GetTechReturned
    /\ \E i \in Selected :
           /\ outfit_stack[i].tech < ret.tech[1]
           /\ \E k \in 1 .. Len(ret.names) : ret.names[k] = outfit_stack[i].name
    /\ \E i \in 1 .. Len(outfit_stack) : i \notin Selected

(* C7: for each of the four defined damage types and every magnitude,       *)
(* outfit_calcDamage gives the shield damage, armour damage and knockback   *)
(* of the design's table: energy 1.1 dmg, 0.7 dmg, 0.1; kinetic 0.8 dmg,    *)
(* 1.2 dmg, 1.0; ion dmg, dmg, 0.4; radiation 0.15, dmg, 0.8.               *)
C7_DamageTable ==
    (calc.called /\ calc.dtype \in DefinedDamageTypes) =>
        /\ <<calc.dshield, calc.darmour, calc.knockback>> = DamageTable(calc.dtype, calc.dmg)
        /\ ~calc.warn

(* A radiation call of a magnitude above 1 with shield damage 0.15.         *)
C7_Witness ==
    /\ calc.called
    /\ calc.dtype = DAMAGE_TYPE_RADIATION
    /\ calc.dmg > 1
    /\ calc.dshield = 15

(* C8: for every damage type code that is none of the four defined ones     *)
(* (the null type too) and every magnitude, outfit_calcDamage sets the      *)
(* three outputs to 0 and reports the type; the call returns (no fault).    *)
C8_UnknownTypeZero ==
    (calc.called /\ calc.dtype \notin DefinedDamageTypes) =>
        /\ calc.dshield = 0
        /\ calc.darmour = 0
        /\ calc.knockback = 0
        /\ calc.warn
        /\ ~crashed

(* A call with a code past the last enumerator and a magnitude above 0.     *)
C8_Witness ==
    /\ calc.called
    /\ calc.dtype > DAMAGE_TYPE_RADIATION
    /\ calc.dmg > 0
    /\ calc.warn

(* C9, as claimed: the display name of a non-null type t, handed to the     *)
(* type-string parser, gives a type of the broad category of t.             *)
C9_DisplayNameRoundTrip ==
    (reg.type # OUTFIT_TYPE_NULL /\ reg.buf = Str(outfit_getType(reg.type))) =>
        reg.parsedBroad = outfit_getTypeBroad(reg.type)

(* C9, amended: the display name of a non-null type t is no string the      *)
(* type-string parser recognises: the parser reports it and gives the null  *)
(* type, whose broad category "NULL" is not that of t.                      *)
C9_DisplayNameNotParsed ==
    (reg.type # OUTFIT_TYPE_NULL /\ reg.buf = Str(outfit_getType(reg.type))) =>
        /\ reg.parsed = OUTFIT_TYPE_NULL
        /\ reg.warn
        /\ reg.parsedBroad = "NULL"
        /\ reg.parsedBroad # reg.broad

(* The display name of the bolt type, parsed.                               *)
C9_Witness ==
    /\ reg.type = OUTFIT_TYPE_BOLT
    /\ reg.buf = Str("Bolt Cannon")
    /\ reg.broad = "Bolt Weapon"
    /\ reg.parsed = OUTFIT_TYPE_NULL

(* C10: when the data file has the root "Outfits" and an outfit whose type  *)
(* string the parser does not resolve, outfit_load returns 0 and the        *)
(* catalogue is the one before the call followed by one entry per outfit    *)
(* element, in order, each with its name, tech and price and with its       *)
(* resolved type (the null type where the string is not resolved).  Fails:  *)
(* when another outfit of the file has no type attribute, the null string   *)
(* is handed to outfit_strToOutfitType and the process ends in strcmp (see  *)
(* C27).                                                                    *)
C10_UnresolvedTypeTolerated ==
    (/\ LoadCalled
     /\ doc.root = XML_OUTFIT_ID
     /\ \E k \in 1 .. Len(OutfitChildren) :
            /\ OutfitChildren[k].type # NULL
            /\ \A c \in 1 .. Len(O_CMP) : OutfitChildren[k].type # Str(O_CMP[c][1]))
    => /\ ret.status = "returned"
       /\ ret.res = 0
       /\ Len(outfit_stack) = Len(ret.before) + Len(OutfitChildren)
       /\ \A i \in 1 .. Len(ret.before) : outfit_stack[i] = ret.before[i]
       /\ \A k \in 1 .. Len(OutfitChildren) :
              LET o == outfit_stack[Len(ret.before) + k]
                  e == OutfitChildren[k]
              IN  /\ o.name = e.name
                  /\ o.tech = e.tech
                  /\ o.price = e.price
                  /\ \/ \E c \in 1 .. Len(O_CMP) :
                            e.type = Str(O_CMP[c][1]) /\ o.type = O_CMP[c][2]
                     \/ /\ \A c \in 1 .. Len(O_CMP) : e.type # Str(O_CMP[c][1])
                        /\ o.type = OUTFIT_TYPE_NULL

-----------------------------------------------------------------------------
(* C11: when the data file's root is not "Outfits" or the root has no       *)
(* children, outfit_load returns failure (-1) and leaves the stack as it    *)
(* was; an outfit_get that follows such a load on an empty stack returns    *)
(* NULL (not found) for every name.                                         *)
RootRejected == doc.root # XML_OUTFIT_ID \/ doc.children = <<>>

C11_RejectedLoadAppendsNothing ==
    [][/\ (ret'.op = "load" /\ RootRejected)
            => /\ ret'.status = "returned"
               /\ ret'.res = -1
               /\ outfit_stack' = outfit_stack
       /\ (/\ LoadCalled /\ ret.res = -1 /\ outfit_stack = <<>>
           /\ ret'.op = "get")
            => /\ ret'.status = "returned"
               /\ ret'.idx = 0
               /\ ret'.warn]_vars

C11_Witness ==
    /\ LoadCalled
    /\ doc.root # XML_OUTFIT_ID
    /\ NOutfits(doc.children) > 0
    /\ ret.res = -1
    /\ outfit_stack = <<>>

-----------------------------------------------------------------------------
(* C12: for every outfit type and each of the eight accessors, the accessor *)
(* reads only fields of the payload that is valid for the type (bolt        *)
(* payload for bolt and turret bolt, beam payload for beam and turret beam, *)
(* launcher payload for the launchers, ammo payload for the ammunition) and *)
(* never a field of another payload.                                        *)
AccessorCalled == ret.op = "accessor"

Accessed == outfit_stack[ret.idx]

Returned ==
    IF ret.fn = "outfit_gfx" THEN ret.texture
    ELSE IF ret.fn \in IntAccessors THEN ret.int
    ELSE ret.double

ValidPayload(t) ==
    CASE t \in {OUTFIT_TYPE_BOLT, OUTFIT_TYPE_TURRET_BOLT} -> "blt"
      [] t \in {OUTFIT_TYPE_BEAM, OUTFIT_TYPE_TURRET_BEAM} -> "bem"
      [] t \in {OUTFIT_TYPE_MISSILE_DUMB, OUTFIT_TYPE_MISSILE_SEEK,
                OUTFIT_TYPE_MISSILE_SEEK_SMART, OUTFIT_TYPE_MISSILE_SWARM,
                OUTFIT_TYPE_MISSILE_SWARM_SMART} -> "lau"
      [] t \in {OUTFIT_TYPE_MISSILE_DUMB_AMMO, OUTFIT_TYPE_MISSILE_SEEK_AMMO,
                OUTFIT_TYPE_MISSILE_SEEK_SMART_AMMO,
                OUTFIT_TYPE_MISSILE_SWARM_AMMO,
                OUTFIT_TYPE_MISSILE_SWARM_SMART_AMMO} -> "amm"
      [] OTHER -> "none"

C12_ReadsValidPayload ==
    AccessorCalled => ret.reads \in {"none", ValidPayload(Accessed.type)}

-----------------------------------------------------------------------------
(* C13: for an outfit of type null, modification, afterburner, jammer or    *)
(* map every accessor returns its sentinel and reads no payload:            *)
(* outfit_gfx the null handle, outfit_damageType the null damage type, the  *)
(* six others -1; no accessor call fails.                                   *)
NoPayloadTypes ==
    {OUTFIT_TYPE_NULL, OUTFIT_TYPE_MODIFCATION, OUTFIT_TYPE_AFTERBURNER,
     OUTFIT_TYPE_JAMMER, OUTFIT_TYPE_MAP}

IsSentinel(fn, value) ==
    CASE fn = "outfit_gfx" -> value = NULL
      [] fn = "outfit_damageType" -> value = DAMAGE_TYPE_NULL
      [] fn \in {"outfit_spfx", "outfit_delay"} -> value = -1
      [] OTHER -> value.n = 0 - value.d

C13_SentinelWithoutPayload ==
    (AccessorCalled /\ Accessed.type \in NoPayloadTypes)
        => /\ ret.status = "returned"
           /\ ret.reads = "none"
           /\ IsSentinel(ret.fn, Returned)

(* outfit_energy was called on a jammer whose section gives an energy.      *)
C13_Witness ==
    /\ AccessorCalled
    /\ ret.fn = "outfit_energy"
    /\ Accessed.type = OUTFIT_TYPE_JAMMER
    /\ Accessed.u.energy.n > 0
    /\ IsSentinel(ret.fn, Returned)

-----------------------------------------------------------------------------
(* The <outfit> element the i-th entry of the stack was parsed from: each   *)
(* load appends the outfits of the data file in their order.                *)
Source(i) == OutfitChildren[((i - 1) % Len(OutfitChildren)) + 1]

Gives(e, tag) == \E k \in 1 .. Len(e.nodes) : e.nodes[k].tag = tag

Given(e, tag) == e.nodes[CHOOSE k \in 1 .. Len(e.nodes) : e.nodes[k].tag = tag]

(* The number the section gives for the tag, 0 when it gives none.          *)
GivenNum(e, tag) == IF Gives(e, tag) THEN Given(e, tag).num ELSE Q(0, 1)

-----------------------------------------------------------------------------
(* C14: for every outfit of one of the five ammunition types,               *)
(* outfit_range(o) is 0.8 * outfit_speed(o) * duration(o), speed and        *)
(* duration being the stored ammunition fields.                             *)
AmmoTypes ==
    {OUTFIT_TYPE_MISSILE_DUMB_AMMO, OUTFIT_TYPE_MISSILE_SEEK_AMMO,
     OUTFIT_TYPE_MISSILE_SEEK_SMART_AMMO, OUTFIT_TYPE_MISSILE_SWARM_AMMO,
     OUTFIT_TYPE_MISSILE_SWARM_SMART_AMMO}

C14_AmmoRange ==
    (AccessorCalled /\ ret.fn = "outfit_range" /\ Accessed.type \in AmmoTypes)
        => LET speed == outfit_speed(Accessed, Q(0, 1)).value
               duration == Accessed.u.duration
           IN  /\ speed = Accessed.u.speed
               /\ 10 * Returned.n * speed.d * duration.d
                    = 8 * speed.n * duration.n * Returned.d

(* The range 6 of ammunition of speed 1.5 and duration 5.                   *)
C14_Witness ==
    /\ AccessorCalled
    /\ ret.fn = "outfit_range"
    /\ Accessed.type = OUTFIT_TYPE_MISSILE_SEEK_AMMO
    /\ QEq(Accessed.u.speed, Q(3, 2))
    /\ QEq(Accessed.u.duration, Q(5, 1))
    /\ QEq(Returned, Q(6, 1))

-----------------------------------------------------------------------------
(* C15: for every outfit of type "bolt" whose specific section gives delay, *)
(* speed, range, accuracy, energy and a damage element with a valid damage  *)
(* type and an amount, the loaded outfit has outfit_isWeapon and            *)
(* outfit_isBolt true, and outfit_damage, outfit_damageType, outfit_range,  *)
(* outfit_speed, outfit_delay and outfit_energy return the document's       *)
(* amount, damage type, range, speed, delay and energy.                     *)
DamageTypeNamed ==
    [s \in {"energy", "kinetic", "ion", "radiation"} |->
        CASE s = "energy" -> DAMAGE_TYPE_ENERGY
          [] s = "kinetic" -> DAMAGE_TYPE_KINETIC
          [] s = "ion" -> DAMAGE_TYPE_ION
          [] s = "radiation" -> DAMAGE_TYPE_RADIATION]

BoltGiven(e) ==
    /\ e.type = Str("bolt")
    /\ \A tag \in {"delay", "speed", "range", "accuracy", "energy", "damage"} :
          Gives(e, tag)
    /\ Given(e, "damage").attr # NULL
    /\ Given(e, "damage").attr[1] \in DOMAIN DamageTypeNamed

BoltQueried ==
    /\ ret.op \in {"accessor", "predicates"}
    /\ BoltGiven(Source(ret.idx))

(* All that the claim says but the delay.                                   *)
BoltAsGiven ==
    LET e == Source(ret.idx)
    IN  /\ ret.op = "predicates" => (ret.isWeapon /\ ret.isBolt)
        /\ ret.op = "accessor" =>
              CASE ret.fn = "outfit_damage" -> QEq(Returned, GivenNum(e, "damage"))
                [] ret.fn = "outfit_damageType" ->
                      Returned = DamageTypeNamed[Given(e, "damage").attr[1]]
                [] ret.fn = "outfit_range" -> QEq(Returned, GivenNum(e, "range"))
                [] ret.fn = "outfit_speed" -> QEq(Returned, GivenNum(e, "speed"))
                [] ret.fn = "outfit_energy" -> QEq(Returned, GivenNum(e, "energy"))
                [] OTHER -> TRUE

DelayQueried == ret.op = "accessor" /\ ret.fn = "outfit_delay"

C15_BoltAsDocument ==
    BoltQueried
        => /\ BoltAsGiven
           /\ DelayQueried => QEq(Q(Returned, 1), GivenNum(Source(ret.idx), "delay"))

(* C15, amended: as above, but outfit_delay returns the document's delay    *)
(* without its fraction (the delay itself when it is a whole number).       *)
C15_BoltAsDocumentWholeDelay ==
    BoltQueried
        => /\ BoltAsGiven
           /\ DelayQueried => Returned = QTrunc(GivenNum(Source(ret.idx), "delay"))

(* outfit_delay gave 2 for the bolt whose document has the delay 2.5.       *)
C15_Witness ==
    /\ BoltQueried
    /\ DelayQueried
    /\ QEq(GivenNum(Source(ret.idx), "delay"), Q(5, 2))
    /\ Returned = 2

-----------------------------------------------------------------------------
(* C16: every percentage and per-minute field is normalised once at parse   *)
(* time: jammer chance = document chance / 100, jammer energy = document    *)
(* energy / 60, ammunition resist = document resist / 100, modification     *)
(* armour, shield and energy regeneration = document value / 60,            *)
(* afterburner thrust and speed multipliers = 1 + document percentage /     *)
(* 100.                                                                     *)
Over(q, k) == Q(q.n, k * q.d)

OnePlusOver(q, k) == Q(k * q.d + q.n, k * q.d)

-----------------------------------------------------------------------------
(* C17: outfit_getTypeBroad gives, for every type code but the null type,   *)
(* one of the nine broad categories, the category "Turret" for the turret   *)
(* types, so that each of the nine is the result for some type code; for    *)
(* the null type it gives "NULL".                                           *)
BroadCategories ==
    {"Bolt Weapon", "Beam Weapon", "Launcher", "Ammo", "Turret",
     "Modification", "Afterburner", "Jammer", "Map"}

Described == reg.name # NULL

C17_NineBroadCategories ==
    Described
        => /\ reg.type = OUTFIT_TYPE_NULL => reg.broad = "NULL"
           /\ reg.type # OUTFIT_TYPE_NULL => reg.broad \in BroadCategories
           /\ reg.type \in {OUTFIT_TYPE_TURRET_BOLT, OUTFIT_TYPE_TURRET_BEAM}
                 => reg.broad = "Turret"
           /\ \A c \in BroadCategories \ {"Turret"} :
                 \E t \in OutfitTypes : outfit_getTypeBroad(t) = c

-----------------------------------------------------------------------------
(* C18: in every record of the stack, each handle field of the payload      *)
(* valid for its type (store graphic, space graphic, sound, effect id) is   *)
(* what the graphics, sound or effect registry returned for a tag the       *)
(* document has, or, when the document has no such tag, the field's         *)
(* not-set value: the null handle, -1.                                      *)
TextureAsGiven(e, field) ==
    IF Gives(e, "gfx") THEN field = gl_newSprite(Given(e, "gfx").text)
    ELSE field = NULL

SpfxAsGiven(e, field) ==
    IF Gives(e, "spfx") THEN field = spfx_get(Given(e, "spfx").text)
    ELSE field = -1

SoundAsGiven(e, field) ==
    IF Gives(e, "sound") THEN field = sound_get(Given(e, "sound").text)
    ELSE field = -1

C18_HandlesGivenOrNotSet ==
    \A i \in 1 .. Len(outfit_stack) :
        LET o == outfit_stack[i]
            e == Source(i)
        IN  /\ IF e.gfx_store # NULL THEN o.gfx_store = gl_newImage(e.gfx_store)
               ELSE o.gfx_store = NULL
            /\ o.u.member \in {"blt", "amm"} =>
                  /\ TextureAsGiven(e, o.u.gfx_space)
                  /\ SpfxAsGiven(e, o.u.spfx)
                  /\ SoundAsGiven(e, o.u.sound)
            /\ o.u.member = "afb" => SoundAsGiven(e, o.u.sound)

-----------------------------------------------------------------------------
(* C19: after outfit_free has run on a loaded stack, every graphic handle,  *)
(* sound handle and heap-held string (name, description, launcher ammo      *)
(* name) that the load acquired for an entry has been released, none more   *)
(* than once, nothing that the load did not acquire has been handed to a    *)
(* release function, and the stack itself has been released.                *)
Item(i, field, ptr) == [idx |-> i, field |-> field, ptr |-> ptr]

StackItem == Item(0, "outfit_stack", <<"outfit_stack">>)

AcquiredFor(i) ==
    LET o == outfit_stack[i]
        e == Source(i)
    IN  (IF o.name # NULL THEN {Item(i, "name", o.name)} ELSE {})
        \cup (IF o.description # NULL
              THEN {Item(i, "description", o.description)} ELSE {})
        \cup (IF o.gfx_store # NULL
              THEN {Item(i, "gfx_store", o.gfx_store)} ELSE {})
        \cup (IF o.u.member \in {"blt", "amm"} /\ o.u.gfx_space # NULL
              THEN {Item(i, "gfx", o.u.gfx_space)} ELSE {})
        \cup (IF o.u.member = "lau" /\ o.u.ammo # NULL
              THEN {Item(i, "ammo", o.u.ammo)} ELSE {})
        \cup (IF /\ o.u.member \in {"blt", "amm", "afb"}
                 /\ Gives(e, "sound")
                 /\ sound_get(Given(e, "sound").text) >= 0
              THEN {Item(i, "sound", <<"sound", Given(e, "sound").text[1]>>)}
              ELSE {})

Acquired == UNION {AcquiredFor(i) : i \in 1 .. Len(outfit_stack)}

FreeCalled == ret.op = "free"

C19_FreeReleasesAllOnce ==
    FreeCalled
        => /\ ret.status = "returned"
           /\ \A a \in Acquired : \E k \in 1 .. Len(released) : released[k] = a
           /\ \A k, l \in 1 .. Len(released) :
                 released[k] = released[l] => k = l
           /\ \A k \in 1 .. Len(released) :
                 released[k].ptr # NULL => released[k] \in Acquired \cup {StackItem}
           /\ \E k \in 1 .. Len(released) : released[k] = StackItem

-----------------------------------------------------------------------------
(* C20: after a load, no call of outfit_get, outfit_getTech,                *)
(* outfit_calcDamage, the type predicates, outfit_getType,                  *)
(* outfit_getTypeBroad or the eight accessors changes the stack: the number *)
(* of entries, their order and every field of every record stay as they     *)
(* are.                                                                     *)
QueryOps == {"get", "getTech", "accessor", "predicates"}

C20_QueriesLeaveStack ==
    [][(ret'.op \in QueryOps \/ calc' # calc) => outfit_stack' = outfit_stack]_vars

(* outfit_calcDamage was called and outfit_getTech has returned the second  *)
(* of two entries: the turret it left out is still the first of the stack.  *)
C20_Witness ==
    /\ GetTechReturned
    /\ Len(outfit_stack) = 2
    /\ ret.outfits = <<2>>
    /\ ret.names = <<Str("A")>>
    /\ outfit_stack[1].type = OUTFIT_TYPE_TURRET_BEAM
    /\ calc.called

-----------------------------------------------------------------------------
(* C21: after an outfit_load that returned 0, the stack is the stack before *)
(* the call followed by exactly one entry per "outfit" child of the root,   *)
(* in the order of the document; children of another tag add no entry, and  *)
(* the stack has grown by the number of "outfit" children.                  *)
LoadSucceeded == LoadCalled /\ ret.status = "returned" /\ ret.res = 0

C21_LoadAppendsOutfitElements ==
    LoadSucceeded =>
        /\ Len(outfit_stack) = Len(ret.before) + NOutfits(doc.children)
        /\ SubSeq(outfit_stack, 1, Len(ret.before)) = ret.before
        /\ \A k \in 1 .. Len(OutfitChildren) :
               /\ ~outfit_parse(OutfitChildren[k]).fault
               /\ outfit_stack[Len(ret.before) + k] = outfit_parse(OutfitChildren[k]).o
               /\ outfit_stack[Len(ret.before) + k].name = OutfitChildren[k].name

C21_Witness ==
    /\ LoadSucceeded
    /\ ret.before # <<>>
    /\ \E k \in 1 .. Len(doc.children) : doc.children[k].tag # XML_OUTFIT_TAG
    /\ NOutfits(doc.children) = 1
    /\ Len(outfit_stack) = Len(ret.before) + 1

-----------------------------------------------------------------------------
(* C22: outfit_strToOutfitType gives the 18 recognised type strings 18      *)
(* codes that differ from each other and from the null code and that are    *)
(* all the non-null codes, without a report; for every other string it      *)
(* reports the string, returns the null code and returns normally.          *)
RecognisedTypeStrings ==
    {"bolt", "beam", "turret bolt", "turret beam",
     "missile dumb", "missile dumb ammo", "missile seek", "missile seek ammo",
     "missile smart", "missile smart ammo", "missile swarm", "missile swarm ammo",
     "missile swarm smart", "missile swarm smart ammo",
     "modification", "afterburner", "map", "jammer"}

TypeParsed == reg.buf # NULL

C22_TypeStringsToDistinctCodes ==
    /\ Cardinality(RecognisedTypeStrings) = 18
    /\ \A s \in RecognisedTypeStrings :
           /\ outfit_strToOutfitType(Str(s)).type # OUTFIT_TYPE_NULL
           /\ ~outfit_strToOutfitType(Str(s)).warn
    /\ \A s, t \in RecognisedTypeStrings :
           s # t => outfit_strToOutfitType(Str(s)).type # outfit_strToOutfitType(Str(t)).type
    /\ {outfit_strToOutfitType(Str(s)).type : s \in RecognisedTypeStrings}
           = OutfitTypes \ {OUTFIT_TYPE_NULL}
    /\ TypeParsed =>
           /\ ~crashed
           /\ IF \E s \in RecognisedTypeStrings : reg.buf = Str(s)
              THEN /\ reg.parsed \in OUTFIT_TYPE_BOLT .. OUTFIT_TYPE_MAP
                   /\ ~reg.warn
              ELSE /\ reg.parsed = OUTFIT_TYPE_NULL
                   /\ reg.warn

(* A string that is not recognised has been parsed, after it the last       *)
(* string of the chain.                                                     *)
C22_Witness ==
    /\ TypeParsed
    /\ reg.buf = Str("laser")
    /\ reg.parsed = OUTFIT_TYPE_NULL
    /\ reg.warn
    /\ outfit_strToOutfitType(Str("jammer")).type = OUTFIT_TYPE_JAMMER

-----------------------------------------------------------------------------
(* C23: for the "specific" section of every loaded outfit exactly one       *)
(* variant parser ran when the type is not null (the bolt parser for bolt   *)
(* and turret bolt, the beam parser for beam and turret beam, the launcher  *)
(* parser for the five launchers, the ammo parser for the five ammo types,  *)
(* the modification, afterburner, map and jammer parsers for their types)   *)
(* and none when the type is null; and an accessor that reads a payload of  *)
(* the entry reads the one that parser filled.  Fails: outfit_gfx,          *)
(* outfit_spfx and outfit_speed read the bolt payload of a turret beam,     *)
(* which the beam parser filled (see C12).                                  *)
ParserOfType(t) ==
    CASE t \in {OUTFIT_TYPE_BOLT, OUTFIT_TYPE_TURRET_BOLT} -> "outfit_parseSBolt"
      [] t \in {OUTFIT_TYPE_BEAM, OUTFIT_TYPE_TURRET_BEAM} -> "outfit_parseSBeam"
      [] t \in {OUTFIT_TYPE_MISSILE_DUMB, OUTFIT_TYPE_MISSILE_SEEK,
                OUTFIT_TYPE_MISSILE_SEEK_SMART, OUTFIT_TYPE_MISSILE_SWARM,
                OUTFIT_TYPE_MISSILE_SWARM_SMART} -> "outfit_parseSLauncher"
      [] t \in AmmoTypes -> "outfit_parseSAmmo"
      [] t = OUTFIT_TYPE_MODIFCATION -> "outfit_parseSMod"
      [] t = OUTFIT_TYPE_AFTERBURNER -> "outfit_parseSAfterburner"
      [] t = OUTFIT_TYPE_MAP -> "outfit_parseSMap"
      [] t = OUTFIT_TYPE_JAMMER -> "outfit_parseSJammer"
      [] OTHER -> "none"

PayloadOfParser(parser) ==
    CASE parser = "outfit_parseSBolt" -> "blt"
      [] parser = "outfit_parseSBeam" -> "bem"
      [] parser = "outfit_parseSLauncher" -> "lau"
      [] parser = "outfit_parseSAmmo" -> "amm"
      [] parser = "outfit_parseSMod" -> "mod"
      [] parser = "outfit_parseSAfterburner" -> "afb"
      [] parser = "outfit_parseSMap" -> "map"
      [] parser = "outfit_parseSJammer" -> "jam"
      [] OTHER -> "none"

C23_OneParserFillsPayloadRead ==
    /\ \A i \in 1 .. Len(outfit_stack) :
           /\ outfit_stack[i].parser = ParserOfType(outfit_stack[i].type)
           /\ outfit_stack[i].u.member = PayloadOfParser(outfit_stack[i].parser)
    /\ (AccessorCalled /\ ret.reads # "none")
           => ret.reads = PayloadOfParser(Accessed.parser)

-----------------------------------------------------------------------------
(* C24: in every loaded outfit a field whose tag the document does not      *)
(* give has its default: 0 for a number, null for a string or a graphic,    *)
(* -1 for the sound of a bolt, 1 for the thrust and speed multipliers of    *)
(* an afterburner; a tag the variant parser of the outfit does not take     *)
(* changes no field.                                                        *)
ParserTags(member) ==
    CASE member = "blt" -> {"speed", "delay", "range", "accuracy", "energy",
                            "gfx", "spfx", "sound", "damage"}
      [] member = "bem" -> {"range", "turn", "energy", "damage"}
      [] member = "lau" -> {"delay", "ammo"}
      [] member = "amm" -> {"duration", "lockon", "resist", "thrust", "turn",
                            "speed", "energy", "gfx", "spfx", "sound", "damage"}
      [] member = "mod" -> {"thrust", "turn", "speed", "armour", "shield",
                            "energy", "fuel", "armour_regen", "shield_regen",
                            "energy_regen", "cargo"}
      [] member = "afb" -> {"rumble", "sound", "thrust_perc", "thrust_abs",
                            "speed_perc", "speed_abs", "energy"}
      [] member = "map" -> {"radius"}
      [] member = "jam" -> {"range", "chance", "energy"}
      [] OTHER -> {}

TagOfField(field) ==
    CASE field = "gfx_space" -> "gfx"
      [] field = "dtype" -> "damage"
      [] OTHER -> field

HasDefault(member, field, value) ==
    CASE field \in {"gfx_space", "ammo"} -> value = NULL
      [] field = "sound" -> value = IF member = "blt" THEN -1 ELSE 0
      [] field \in {"spfx", "dtype"} -> value = 0
      [] member = "afb" /\ field \in {"thrust_perc", "speed_perc"} -> QEq(value, Q(1, 1))
      [] OTHER -> QEq(value, Q(0, 1))

C24_AbsentTagKeepsDefault ==
    \A i \in 1 .. Len(outfit_stack) :
        LET o == outfit_stack[i]
            e == Source(i)
        IN  /\ e.description = NULL => o.description = NULL
            /\ e.gfx_store = NULL => o.gfx_store = NULL
            /\ \A field \in DOMAIN o.u \ {"member", "colour"} :
                   (\/ ~Gives(e, TagOfField(field))
                    \/ TagOfField(field) \notin ParserTags(o.u.member))
                   => HasDefault(o.u.member, field, o.u[field])

(* An afterburner is loaded from a section without children.                *)
C24_Witness ==
    /\ outfit_stack # <<>>
    /\ outfit_stack[1].type = OUTFIT_TYPE_AFTERBURNER
    /\ Source(1).nodes = <<>>
    /\ QEq(outfit_stack[1].u.thrust_perc, Q(1, 1))
    /\ QEq(outfit_stack[1].u.energy, Q(0, 1))

-----------------------------------------------------------------------------
(* C25: after the parse of an outfit of one of the five ammunition types,   *)
(* "turn" (and likewise "lockon") has been reported missing exactly when    *)
(* the field is zero and the type is not the dumb missile's ammunition, so  *)
(* never for that type; "thrust", "speed", "duration" and "damage" have     *)
(* been reported exactly when the field is zero, for all five types; the    *)
(* reports end no parse and discard no record: the load returns with the    *)
(* outfit on the stack.                                                     *)
AmmoParsed(k) == outfit_stack[Len(ret.before) + k]

C25_AmmoValidationReports ==
    /\ LoadSucceeded =>
           /\ Len(ret.log) = Len(outfit_stack) - Len(ret.before)
           /\ \A k \in 1 .. Len(ret.log) :
                  AmmoParsed(k).type \in AmmoTypes =>
                      /\ \A f \in {"turn", "lockon"} :
                             f \in ret.log[k]
                             <=> (/\ AmmoParsed(k).u[f].n = 0
                                  /\ AmmoParsed(k).type # OUTFIT_TYPE_MISSILE_DUMB_AMMO)
                      /\ \A f \in {"thrust", "speed", "duration", "damage"} :
                             f \in ret.log[k] <=> AmmoParsed(k).u[f].n = 0
    /\ (/\ LoadCalled
        /\ ~RootRejected
        /\ \A k \in 1 .. Len(OutfitChildren) :
               /\ \E t \in AmmoTypes :
                      outfit_strToOutfitType(OutfitChildren[k].type).type = t
               /\ \A n \in 1 .. Len(OutfitChildren[k].nodes) :
                      ~outfit_parseDamage_faults("outfit_parseSAmmo",
                                                 OutfitChildren[k].nodes[n]))
       => /\ LoadSucceeded
          /\ Len(outfit_stack) = Len(ret.before) + Len(OutfitChildren)

(* A dumb missile's ammunition loaded from a section without children: all  *)
(* but turn and lockon are reported, and the record is on the stack.        *)
C25_Witness ==
    /\ LoadSucceeded
    /\ Len(ret.log) = 1
    /\ AmmoParsed(1).type = OUTFIT_TYPE_MISSILE_DUMB_AMMO
    /\ AmmoParsed(1).u.turn.n = 0
    /\ ret.log[1] = {"gfx", "thrust", "speed", "duration", "damage"}

-----------------------------------------------------------------------------
(* C26: an outfit element without a name attribute gives a record with a    *)
(* null name that stays on the stack, and with such a record on the stack   *)
(* every outfit_get and outfit_getTech returns; outfit_get returns the      *)
(* first entry whose name is the argument, or NULL when there is none.      *)
(* Fails: outfit_get hands the null name to strcmp (outfit.c 77) and        *)
(* outfit_getTech to strcmp and strdup (outfit.c 143, 155).                 *)
NamelessStacked == \E i \in 1 .. Len(outfit_stack) : outfit_stack[i].name = NULL

C26_NullNameNeverDereferenced ==
    /\ LoadSucceeded =>
           \A k \in 1 .. Len(OutfitChildren) :
               OutfitChildren[k].name = NULL
               => outfit_stack[Len(ret.before) + k].name = NULL
    /\ (NamelessStacked /\ ret.op \in {"get", "getTech"}) =>
           /\ ret.status = "returned"
           /\ ~crashed
           /\ GetCalled =>
                  ret.idx = IF Named(ret.name) = {} THEN 0 ELSE Least(Named(ret.name))

-----------------------------------------------------------------------------
(* C27: a "specific" section without a type attribute is an error of that   *)
(* entry only: outfit_strToOutfitType is not run on the null string, the    *)
(* outfit gets the null type and stays on the stack, and outfit_load goes   *)
(* on with the entries that follow and returns.  Fails: after the report    *)
(* outfit_parse hands the null string to outfit_strToOutfitType, whose      *)
(* first strcmp ends the process (outfit.c 942-946, 553).                   *)
Untyped(k) == OutfitChildren[k].type = NULL

C27_MissingTypeIsPerEntryError ==
    (/\ LoadCalled
     /\ ~RootRejected
     /\ \E k \in 1 .. Len(OutfitChildren) : Untyped(k))
    => /\ ret.status = "returned"
       /\ ~crashed
       /\ Len(outfit_stack) = Len(ret.before) + Len(OutfitChildren)
       /\ \A k \in 1 .. Len(OutfitChildren) :
              Untyped(k) =>
                  /\ outfit_stack[Len(ret.before) + k].type = OUTFIT_TYPE_NULL
                  /\ outfit_stack[Len(ret.before) + k].name = OutfitChildren[k].name

-----------------------------------------------------------------------------
(* C28: in every outfit_getTech, on every stack and every tech list (one    *)
(* that holds a tech more than once included), the number of candidates     *)
(* written to the array outfits is at most the size of the stack, for which *)
(* the array was allocated, and the number of names written to the result   *)
(* is at most the number of candidates.  Fails: the loop over the special   *)
(* techs has no break, so an entry is written once for every occurrence of  *)
(* its tech in the list (outfit.c 116-121).                                 *)
GetTechCalled == ret.op = "getTech"

C28_CandidatesFitAllocation ==
    GetTechCalled =>
        /\ Len(ret.outfits) <= Len(outfit_stack)
        /\ Len(ret.names) <= Len(ret.outfits)

-----------------------------------------------------------------------------
(* C29: after outfit_load and then outfit_free the stack is empty: it has   *)
(* 0 entries, outfit_get of any name returns NULL, outfit_getTech returns   *)
(* no name, and neither reads a record that outfit_free released.  Fails:   *)
(* outfit_free releases the entries and the array but leaves outfit_nstack  *)
(* and outfit_stack as they were (outfit.c 1047-1065), so both look-ups     *)
(* walk the released array.                                                 *)
Freed == released # <<>> /\ ~(ret.op = "free" /\ ret.status = "fault")

C29_EmptyAfterFree ==
    /\ Freed => Len(outfit_stack) = 0
    /\ (Freed /\ GetCalled) =>
           /\ ret.status = "returned"
           /\ ret.idx = 0
           /\ ret.mem = "live"
    /\ (Freed /\ GetTechCalled) =>
           /\ ret.status = "returned"
           /\ ret.names = <<>>
           /\ ret.mem = "live"

-----------------------------------------------------------------------------
(* C30: outfit_getTech terminates on every stack and every tech list: a     *)
(* call that has reached its while loop returns (or the process ends);      *)
(* each pass of the loop either goes on to the next type and leaves the     *)
(* names alone, or stays at the type and appends a name that the result     *)
(* did not hold; the passes never number more than the non-null type codes  *)
(* plus the candidates; no entry of the null type gets into the result;     *)
(* and the result on return is the one of the whole loop.                   *)
PassBound == (OUTFIT_TYPE_SENTINEL - 1) + Len(ret.outfits)

PassAdvances ==
    (Running /\ ret'.iters = ret.iters + 1) =>
        \/ ret'.status = "fault"
        \/ /\ ret'.type = ret.type + 1
           /\ ret'.names = ret.names
        \/ /\ ret'.type = ret.type
           /\ Len(ret'.names) = Len(ret.names) + 1
           /\ SubSeq(ret'.names, 1, Len(ret.names)) = ret.names
           /\ \A k \in 1 .. Len(ret.names) :
                  ret.names[k] # ret'.names[Len(ret'.names)]

LoopReturned == ret.op = "getTech" /\ ret.status = "returned"

C30_TypeLoopTerminates ==
    /\ (Running ~> ~Running)
    /\ [][PassAdvances]_vars
    /\ [](ret.op = "getTech" => ret.iters <= PassBound)
    /\ [](LoopReturned =>
            /\ ret.iters = (OUTFIT_TYPE_SENTINEL - 1) + Len(ret.names)
            /\ \A k \in 1 .. Len(ret.picked) :
                   outfit_stack[ret.outfits[ret.picked[k]]].type # OUTFIT_TYPE_NULL
            /\ ret.names = getTech_sort(outfit_stack, ret.outfits, OUTFIT_TYPE_NULL + 1,
                                        <<>>, <<>>).names)

(* A call has returned one name after nineteen passes, from two candidates  *)
(* one of which is of the null type.                                        *)
C30_Witness ==
    /\ LoopReturned
    /\ Len(ret.outfits) = 2
    /\ Len(ret.names) = 1
    /\ ret.iters = 19
    /\ \E j \in 1 .. Len(ret.outfits) :
           outfit_stack[ret.outfits[j]].type = OUTFIT_TYPE_NULL


=============================================================================
